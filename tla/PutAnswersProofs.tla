-------------------------- MODULE PutAnswersProofs --------------------------
(***************************************************************************)
(* Theorems about the answers of the put protocol, for any number of       *)
(* client processes, slots, keys and puts, with one reader, waits that do  *)
(* not expire, copies in tier 0 and no two keys that mirror each other     *)
(* (Patient): a client is answered what it asked for, and what is copied,  *)
(* stored and handed back agrees.  A run with a wait that expires shows    *)
(* that it is needed.                                                      *)
(***************************************************************************)
EXTENDS TierPutProofs

-----------------------------------------------------------------------------
\* One reader

\* What the types say of the reader at hand, in the form the steps need.
LEMMA ReaderFacts ==
    ASSUME TypeOK, NEW s \in Servers
    PROVE  /\ ready[s] \in Seq(Procs) /\ Len(ready[s]) \in Nat /\ DOMAIN ready[s] = 1 .. Len(ready[s])
           /\ \A i \in DOMAIN ready[s] : ready[s][i] \in Procs
           /\ DOMAIN batch[s] = 1 .. Len(batch[s]) /\ Len(batch[s]) \in Nat
           /\ \A i \in DOMAIN batch[s] : batch[s][i].proc \in Procs
           /\ pos[s] \in Nat \ {0} /\ spc[s] \in ServerPoints /\ Procs \subseteq Int
<1>1. ready[s] \in Seq(Procs) /\ pos[s] \in Nat \ {0} /\ spc[s] \in ServerPoints
  BY DEF TypeOK
<1>2. Procs \subseteq Int
  BY PutAssumption DEF Procs
<1>3. \A i \in DOMAIN ready[s] : ready[s][i] \in Procs
  BY <1>1, SeqFacts
<1>4. Len(ready[s]) \in Nat /\ DOMAIN ready[s] = 1 .. Len(ready[s])
  BY <1>1, SeqFacts
<1> QED BY <1>1, <1>2, <1>3, <1>4, BatchFacts

\* An entry of the batch the reader is about to answer is pending.
LEMMA AtHand ==
    ASSUME TypeInv, NEW s \in Servers, Answering(s), spc[s] \in {"known", "answer", "release"}
    PROVE  pos[s] \in Pending(s)
<1>1. TypeOK /\ InStep(s) /\ pos[s] \in Nat \ {0} /\ DOMAIN batch[s] \subseteq Nat
  BY ReaderFacts DEF TypeInv
<1>2. CASE spc[s] = "known"
  BY <1>1, <1>2 DEF Answering, Pending, Known
<1>3. CASE spc[s] \in {"answer", "release"}
  BY <1>1, <1>3 DEF InStep, Allotting, Pending
<1> QED BY <1>2, <1>3

-----------------------------------------------------------------------------
\* Markers

\* A client moves its own marker only: it submits a clear element, and clears an
\* answered one.
LEMMA ClientMarkers ==
    ASSUME TypeOK, CycleInv, Patient, NEW p \in Procs, StartPut(p) \/ BusyPut(p) \/ ClientStep(p)
    PROVE  /\ UNCHANGED <<server, table, free, requested, aged>>
           /\ ~TimedOut(p)
           /\ \A q \in Procs : marker'[q] # marker[q] =>
                <<marker[q], marker'[q]>> \in {<<"CLEAR_FOR_WRITE", "CLEARED_FOR_ALLOC">>,
                                                <<"CLEARED_FOR_COPY", "CLEAR_FOR_WRITE">>}
           /\ \A q \in Procs : marker[q] # "CLEAR_FOR_WRITE" =>
                hash'[q] = hash[q] /\ offset'[q] = offset[q]
           /\ \A q \in Procs \ {p} :
                /\ cpc'[q] = cpc[q] /\ req'[q] = req[q] /\ got'[q] = got[q] /\ back'[q] = back[q]
                /\ marker'[q] = marker[q] /\ hash'[q] = hash[q] /\ offset'[q] = offset[q]
<1>1. InCycle(p) /\ \A q \in Procs : marker[q] \in Markers
  BY DEF CycleInv, TypeOK
<1>2. ~TimedOut(p)
  BY DEF TimedOut, TypeOK, Patient
<1>3. UNCHANGED <<server, table, free, requested, aged>>
  BY DEF StartPut, BusyPut, ClientStep, WriteRequest, Submit, WakeReader, Granted, TimedOut, CopyData, Return, lru
<1>4. CASE StartPut(p)
  BY <1>2, <1>3, <1>4 DEF TypeOK, StartPut, com
<1>5. CASE BusyPut(p)
  BY <1>2, <1>3, <1>5 DEF TypeOK, BusyPut, com, client
<1>6. CASE WriteRequest(p)
  <2>1. marker[p] = "CLEAR_FOR_WRITE"
    BY <1>1, <1>6 DEF InCycle, WriteRequest
  <2> QED BY <1>2, <1>3, <1>6, <2>1 DEF TypeOK, WriteRequest
<1>7. CASE Submit(p)
  <2>1. marker[p] = "CLEAR_FOR_WRITE"
    BY <1>1, <1>7 DEF InCycle, Submit
  <2> QED BY <1>2, <1>3, <1>7, <2>1 DEF TypeOK, Submit
<1>8. CASE WakeReader(p)
  BY <1>2, <1>3, <1>8 DEF TypeOK, WakeReader, com
<1>9. CASE Granted(p)
  BY <1>2, <1>3, <1>9 DEF TypeOK, Granted, com
<1>10. CASE CopyData(p)
  BY <1>2, <1>3, <1>10 DEF TypeOK, CopyData, com
<1>11. CASE Return(p)
  <2>1. marker[p] = "CLEARED_FOR_COPY"
    BY <1>1, <1>11 DEF InCycle, Return
  <2> QED BY <1>2, <1>3, <1>11, <2>1 DEF TypeOK, Return
<1> QED BY <1>2, <1>4, <1>5, <1>6, <1>7, <1>8, <1>9, <1>10, <1>11 DEF ClientStep

\* The reader moves markers from submitted to locked, and from locked to answered.
LEMMA ReaderMarkers ==
    ASSUME TypeInv, CycleInv, AnswerInv, Patient, NEW s \in Servers, ServerStep(s)
    PROVE  /\ marker' \in [Procs -> Markers]
           /\ \A p \in Procs : marker'[p] # marker[p] =>
                <<marker[p], marker'[p]>> \in {<<"CLEARED_FOR_ALLOC", "LOCKED_FOR_ALLOC">>,
                                                <<"LOCKED_FOR_ALLOC", "CLEARED_FOR_COPY">>}
           /\ \A p \in Procs : hash'[p].key = hash[p].key
           /\ \A p \in Procs : marker[p] # "LOCKED_FOR_ALLOC" =>
                hash'[p] = hash[p] /\ offset'[p] = offset[p]
<1>0. /\ TypeOK /\ InStep(s) /\ Holds(s) /\ Answering(s)
      /\ marker \in [Procs -> Markers] /\ hash \in [Procs -> Hashes] /\ offset \in [Procs -> Offsets]
      /\ \A i \in Pending(s) : batch[s][i].proc \in Procs /\ marker[batch[s][i].proc] = "LOCKED_FOR_ALLOC"
  BY ReaderFacts DEF TypeInv, TypeOK, CycleInv, AnswerInv, Holds, Pending
<1>1. CASE Lock(s)
  <2>1. ready[s] # <<>> /\ Head(ready[s]) = ready[s][1] /\ 1 \in DOMAIN ready[s]
    BY <1>0, <1>1, ReaderFacts DEF Lock, InStep
  <2>2. marker[Head(ready[s])] = "CLEARED_FOR_ALLOC" /\ Head(ready[s]) \in Procs
    BY <1>0, <2>1, ReaderFacts DEF Holds
  <2> QED BY <1>0, <1>1, <2>2 DEF Lock, Markers
<1>2. CASE OfferKnown(s)
  <2>1. PICK i \in Known(s) : i >= pos[s] /\ offset' = [offset EXCEPT ![batch[s][i].proc] = batch[s][i].found]
    BY <1>2 DEF OfferKnown
  <2>2. i \in Pending(s) /\ UNCHANGED <<marker, hash>>
    BY <1>2, <2>1 DEF OfferKnown, Pending, Known
  <2> QED BY <1>0, <2>1, <2>2
<1>3. CASE ReleaseKnown(s)
  <2>1. pos[s] \in Pending(s)
    BY <1>0, <1>3, AtHand DEF ReleaseKnown
  <2> QED BY <1>0, <1>3, <2>1 DEF ReleaseKnown, MessageProc, Markers
<1>4. CASE Answer(s)
  <2>1. pos[s] \in Pending(s) /\ storing[s] = hash[MessageProc(s)].key
    BY <1>0, <1>4, AtHand DEF Answer, Answering
  <2>2. MessageProc(s) \in Procs /\ marker[MessageProc(s)] = "LOCKED_FOR_ALLOC"
    BY <1>0, <2>1 DEF MessageProc
  <2>3. /\ marker' = marker
        /\ offset' = [offset EXCEPT ![MessageProc(s)] = Allotted(s)]
        /\ hash' = [hash EXCEPT ![MessageProc(s)] = Augmented(storing[s])]
    BY <1>4 DEF Answer
  <2> QED BY <1>0, <2>1, <2>2, <2>3 DEF Augmented
<1>5. CASE Release(s)
  <2>1. pos[s] \in Pending(s)
    BY <1>0, <1>5, AtHand DEF Release
  <2> QED BY <1>0, <1>5, <2>1 DEF Release, MessageProc, Markers
<1>6. CASE ~(Lock(s) \/ OfferKnown(s) \/ ReleaseKnown(s) \/ Answer(s) \/ Release(s))
  <2>1. UNCHANGED com
    BY <1>6 DEF ServerStep, Scan, ClearFlag, Awake, CheckReady, NothingClaimed, Filter, AfterUpdates, UpdatesDone, WildUpdate, CheckMemory, RequestMemory, TakeFree, TakeFails, Allot, Refuse, WildMessage, StoreInHash, Attach
  <2> QED BY <1>0, <2>1 DEF com
<1> QED BY <1>1, <1>2, <1>3, <1>4, <1>5, <1>6

-----------------------------------------------------------------------------
\* The cycle of a put, and what the reader holds

\* A batch that goes on, with no more pending than before.
LEMMA HoldsOn ==
    ASSUME NEW s \in Servers, Holds(s), ready'[s] = <<>>, DOMAIN batch'[s] = DOMAIN batch[s],
           \A i \in DOMAIN batch[s] : batch'[s][i].proc = batch[s][i].proc,
           spc'[s] \notin {"scan", "sleep", "wait"},
           \A i \in Pending(s)' : marker'[batch[s][i].proc] = "LOCKED_FOR_ALLOC"
    PROVE  Holds(s)'
<1>1. DOMAIN ready'[s] = {}
  OBVIOUS
<1>2. \A i, j \in DOMAIN batch'[s] : batch'[s][i].proc = batch'[s][j].proc => i = j
  BY DEF Holds
<1>3. \A i \in Pending(s)' : i \in DOMAIN batch[s]
  BY DEF Pending
<1> QED BY <1>1, <1>2, <1>3 DEF Holds, IsInjective

\* A handler that has returned holds nothing.
LEMMA HoldsNothing ==
    ASSUME NEW s \in Servers, ready'[s] = <<>>, batch'[s] = <<>>
    PROVE  Holds(s)'
<1>1. DOMAIN ready'[s] = {} /\ DOMAIN batch'[s] = {}
  OBVIOUS
<1> QED BY <1>1 DEF Holds, IsInjective, Pending

\* What a client does leaves the messages of the reader as they are.
LEMMA HoldsAside ==
    ASSUME NEW s \in Servers, Holds(s), UNCHANGED server,
           \A i \in DOMAIN ready[s] : ready[s][i] \in Procs,
           \A i \in DOMAIN batch[s] : batch[s][i].proc \in Procs,
           \A p \in Procs : marker[p] \in {"CLEARED_FOR_ALLOC", "LOCKED_FOR_ALLOC"} => marker'[p] = marker[p]
    PROVE  Holds(s)'
<1>1. Pending(s)' = Pending(s)
  BY DEF server, Pending, Known
<1>2. \A i \in Pending(s) : i \in DOMAIN batch[s]
  BY DEF Pending
<1> QED BY <1>1, <1>2 DEF Holds, server

\* A client's step: put_method goes round its cycle.
LEMMA CycleClient ==
    ASSUME TypeInv, CycleInv, Patient, NEW p \in Procs, StartPut(p) \/ BusyPut(p) \/ ClientStep(p)
    PROVE  CycleInv'
<1>0. TypeOK /\ \A q \in Procs : InCycle(q) /\ marker[q] \in Markers
  BY DEF TypeInv, TypeOK, CycleInv
<1>1. ASSUME NEW s \in Servers PROVE Holds(s)'
  BY <1>0, ReaderFacts, ClientMarkers, HoldsAside DEF CycleInv
<1>2. ASSUME NEW q \in Procs \ {p} PROVE InCycle(q)'
  BY <1>0, ClientMarkers DEF InCycle
<1>3. InCycle(p)'
  <2> USE <1>0 DEF TypeOK, InCycle
  <2>1. CASE StartPut(p)
    BY <2>1 DEF StartPut, com
  <2>2. CASE BusyPut(p)
    BY <2>2 DEF BusyPut, com, client
  <2>3. CASE WriteRequest(p)
    BY <2>3 DEF WriteRequest
  <2>4. CASE Submit(p)
    BY <2>4 DEF Submit
  <2>5. CASE WakeReader(p)
    BY <2>5 DEF WakeReader, com
  <2>6. CASE Granted(p)
    BY <2>6 DEF Granted, MayCopy, com
  <2>7. CASE CopyData(p)
    BY <2>7 DEF CopyData, com
  <2>8. CASE Return(p)
    BY <2>8 DEF Return
  <2> QED BY <2>1, <2>2, <2>3, <2>4, <2>5, <2>6, <2>7, <2>8, ClientMarkers DEF ClientStep
<1> QED BY <1>1, <1>2, <1>3 DEF CycleInv

\* A reader's step: it answers only whom it has locked, each once.
LEMMA CycleReader ==
    ASSUME TypeInv, CycleInv, AnswerInv, Patient, NEW s \in Servers, ServerStep(s)
    PROVE  (\A p \in Procs : InCycle(p)') /\ Holds(s)'
<1>0. /\ TypeOK /\ InStep(s) /\ Holds(s) /\ Answering(s)
      /\ \A p \in Procs : InCycle(p) /\ marker[p] \in Markers /\ cpc[p] \in ClientPoints
      /\ ready \in [Servers -> Seq(Procs)] /\ pos \in [Servers -> Nat \ {0}] /\ spc \in [Servers -> ServerPoints]
      /\ batch \in [Servers -> Seq([proc : Procs, found : Slots \cup {NoOffset}])]
      /\ scan \in [Servers -> Procs]
  BY DEF TypeInv, TypeOK, CycleInv, AnswerInv
<1>1. ASSUME NEW p \in Procs PROVE InCycle(p)'
  <2>1. cpc'[p] = cpc[p] /\ req'[p] = req[p] /\ hash'[p].key = hash[p].key
    BY <1>0, OwnLocals, ReaderMarkers DEF client
  <2>2. marker'[p] # marker[p] => cpc[p] \in {"wake", "await"} /\ marker'[p] # "CLEAR_FOR_WRITE"
    BY <1>0, ReaderMarkers DEF InCycle, ClientPoints
  <2> QED BY <1>0, <2>1, <2>2 DEF InCycle
<1>2. Holds(s)'
  <2>0. /\ DOMAIN batch[s] \subseteq Nat /\ pos[s] \in Nat \ {0}
        /\ \A i \in Pending(s) : i \in DOMAIN batch[s] /\ batch[s][i].proc \in Procs
                                 /\ marker[batch[s][i].proc] = "LOCKED_FOR_ALLOC"
        /\ DOMAIN ready[s] = 1 .. Len(ready[s]) /\ Len(ready[s]) \in Nat
        /\ \A i \in DOMAIN ready[s] : ready[s][i] \in Procs
        /\ Procs \subseteq Int
    BY <1>0, ReaderFacts DEF Holds, Pending
  \* Steps that touch no marker: the batch goes on, or is given up.
  <2>01. ASSUME UNCHANGED <<com, ready, batch>>, ready[s] = <<>>, spc'[s] \notin {"scan", "sleep", "wait"},
                Pending(s)' \subseteq Pending(s)
         PROVE  Holds(s)'
    BY <1>0, <2>0, <2>01, HoldsOn DEF com
  <2>02. ASSUME Done(s), ready'[s] = <<>> PROVE Holds(s)'
    BY <1>0, <2>02, HoldsNothing DEF Done
  <2>1. CASE Scan(s)
    <3> DEFINE p == scan[s]
               seen == IF marker[p] = "CLEARED_FOR_ALLOC" THEN Append(ready[s], p) ELSE ready[s]
    <3>1. /\ ready'[s] = seen /\ batch'[s] = batch[s] /\ batch[s] = <<>> /\ marker' = marker
          /\ spc[s] = "scan" /\ p \in Procs
      BY <1>0, <2>1 DEF Scan, Holds, com
    <3>01. p \in Int
      BY <3>1, PutAssumption DEF Procs
    <3>2. /\ seen \in Seq(Procs)
          /\ \A i \in DOMAIN seen : marker[seen[i]] = "CLEARED_FOR_ALLOC" /\ seen[i] \in Int /\ seen[i] <= p
          /\ IsInjective(seen)
      <4>1. CASE marker[p] = "CLEARED_FOR_ALLOC"
        <5>1. /\ seen \in Seq(Procs) /\ Len(seen) = Len(ready[s]) + 1
              /\ \A i \in DOMAIN ready[s] : seen[i] = ready[s][i]
              /\ seen[Len(ready[s]) + 1] = p
              /\ DOMAIN seen = DOMAIN ready[s] \cup {Len(ready[s]) + 1}
          BY <1>0, <2>0, <3>1, <4>1
        <5>2. \A i \in DOMAIN ready[s] : ready[s][i] < p /\ ready[s][i] \in Int /\ p \in Int
          BY <1>0, <2>0, <3>1 DEF Holds
        <5>3. \A i \in DOMAIN ready[s] : marker[ready[s][i]] = "CLEARED_FOR_ALLOC"
          BY <1>0 DEF Holds
        <5> HIDE DEF seen
        <5>4. \A i \in DOMAIN ready[s] : marker[seen[i]] = "CLEARED_FOR_ALLOC" /\ seen[i] \in Int /\ seen[i] <= p
          BY <5>1, <5>2, <5>3
        <5>5. p \in Int /\ p <= p
          BY <3>01
        <5>6. \A i \in DOMAIN seen : marker[seen[i]] = "CLEARED_FOR_ALLOC" /\ seen[i] \in Int /\ seen[i] <= p
          BY <4>1, <5>1, <5>4, <5>5
        <5>7. IsInjective(seen)
          BY <1>0, <5>1, <5>2 DEF Holds, IsInjective
        <5> QED BY <5>1, <5>6, <5>7
      <4>2. CASE marker[p] # "CLEARED_FOR_ALLOC"
        <5>1. seen = ready[s] /\ ready[s] \in Seq(Procs) /\ IsInjective(ready[s])
          BY <1>0, <4>2 DEF Holds
        <5>2. \A i \in DOMAIN ready[s] : marker[ready[s][i]] = "CLEARED_FOR_ALLOC" /\ ready[s][i] < p
          BY <1>0, <3>1 DEF Holds
        <5>3. \A i \in DOMAIN ready[s] : ready[s][i] \in Int /\ p \in Int
          BY <2>0, <3>1
        <5>4. \A i \in DOMAIN ready[s] : ready[s][i] <= p
          BY <5>2, <5>3
        <5> HIDE DEF seen
        <5>5. \A i \in DOMAIN seen : marker[seen[i]] = "CLEARED_FOR_ALLOC" /\ seen[i] \in Int /\ seen[i] <= p
          BY <5>1, <5>2, <5>3, <5>4
        <5> QED BY <5>1, <5>5
      <4> QED BY <4>1, <4>2
    <3> HIDE DEF seen
    <3>3. CASE p < LastProc
      <4>1. scan'[s] = p + 1 /\ spc'[s] = "scan"
        BY <1>0, <2>1, <3>3 DEF Scan
      <4>2. \A i \in DOMAIN seen : seen[i] < p + 1
        BY <3>2, <3>01
      <4>3. Pending(s)' = {}
        BY <3>1 DEF Pending
      <4> QED BY <3>1, <3>2, <4>1, <4>2, <4>3 DEF Holds
    <3>4. CASE ~(p < LastProc)
      <4>1. spc'[s] = IF seen = <<>> THEN "sleep" ELSE "claim"
        BY <1>0, <2>1, <3>4 DEF Scan, seen
      <4>2. Pending(s)' = {}
        BY <3>1 DEF Pending
      <4> QED BY <3>1, <3>2, <4>1, <4>2 DEF Holds
    <3> QED BY <3>3, <3>4
  <2>2. CASE ClearFlag(s)
    BY <1>0, <2>2, HoldsNothing DEF ClearFlag, Holds
  <2>3. CASE Awake(s)
    BY <1>0, <2>3, HoldsNothing DEF Awake, Holds
  <2>4. CASE CheckReady(s)
    <3>1. ready[s] # <<>> /\ marker[Head(ready[s])] = "CLEARED_FOR_ALLOC"
      <4>1. ready[s] # <<>> /\ Head(ready[s]) = ready[s][1] /\ 1 \in DOMAIN ready[s]
        BY <2>0, <2>4, <1>0 DEF CheckReady
      <4> QED BY <1>0, <4>1 DEF Holds
    <3>2. spc[s] = "claim" /\ spc'[s] = "lock" /\ ready' = ready /\ batch' = batch /\ marker' = marker
      BY <1>0, <2>4, <3>1 DEF CheckReady, com
    <3>3. Pending(s)' = Pending(s)
      BY <3>2 DEF Pending
    <3> QED BY <1>0, <3>2, <3>3 DEF Holds
  <2>5. CASE Lock(s)
    <3> DEFINE h == Head(ready[s])
    <3>1. /\ spc[s] = "lock" /\ spc'[s] = "claim" /\ ready[s] # <<>>
          /\ marker' = [marker EXCEPT ![h] = "LOCKED_FOR_ALLOC"]
          /\ batch'[s] = Append(batch[s], [proc |-> h, found |-> NoOffset])
          /\ ready'[s] = Tail(ready[s])
      BY <1>0, <2>5 DEF Lock, InStep
    <3>2. /\ h = ready[s][1] /\ 1 \in DOMAIN ready[s] /\ h \in Procs /\ marker[h] = "CLEARED_FOR_ALLOC"
          /\ DOMAIN ready'[s] = 1 .. Len(ready[s]) - 1
          /\ \A i \in DOMAIN ready'[s] : ready'[s][i] = ready[s][i + 1] /\ i + 1 \in DOMAIN ready[s]
      <4>1. ready[s] \in Seq(Procs) /\ ready[s] # <<>>
        BY <1>0, <3>1
      <4>2. h = ready[s][1] /\ 1 \in DOMAIN ready[s] /\ Tail(ready[s]) \in Seq(Procs)
        BY <2>0, <4>1
      <4>3. /\ DOMAIN Tail(ready[s]) = 1 .. Len(ready[s]) - 1
            /\ \A i \in 1 .. Len(ready[s]) - 1 : Tail(ready[s])[i] = ready[s][i + 1]
        BY <2>0, <4>1
      <4>4. h \in Procs /\ marker[h] = "CLEARED_FOR_ALLOC"
        BY <1>0, <2>0, <4>2 DEF Holds
      <4> QED BY <2>0, <3>1, <4>2, <4>3, <4>4
    <3>3. \A i \in DOMAIN ready'[s] : marker'[ready'[s][i]] = "CLEARED_FOR_ALLOC"
      <4> SUFFICES ASSUME NEW i \in DOMAIN ready'[s] PROVE marker'[ready'[s][i]] = "CLEARED_FOR_ALLOC"
          OBVIOUS
      <4>1. ready[s][i + 1] # h /\ ready[s][i + 1] \in Procs /\ marker[ready[s][i + 1]] = "CLEARED_FOR_ALLOC"
        <5>1. i \in Nat /\ i + 1 # 1 /\ i + 1 \in DOMAIN ready[s]
          BY <2>0, <3>2
        <5>2. ready[s][i + 1] # ready[s][1]
          BY <1>0, <3>2, <5>1 DEF Holds, IsInjective
        <5> QED BY <1>0, <2>0, <3>2, <5>1, <5>2 DEF Holds
      <4> QED BY <3>1, <3>2, <4>1, <1>0 DEF TypeOK
    <3>4. IsInjective(ready'[s])
      BY <1>0, <3>2 DEF Holds, IsInjective
    <3>5. /\ DOMAIN batch'[s] = DOMAIN batch[s] \cup {Len(batch[s]) + 1}
          /\ \A i \in DOMAIN batch[s] : batch'[s][i] = batch[s][i]
          /\ batch'[s][Len(batch[s]) + 1].proc = h
      BY <1>0, <3>1, <3>2, ReaderFacts
    <3>6. \A i \in DOMAIN batch[s] : /\ batch[s][i].proc # h /\ batch[s][i].proc \in Procs
                                     /\ marker[batch[s][i].proc] = "LOCKED_FOR_ALLOC"
      BY <1>0, <2>0, <3>1, <3>2 DEF Pending
    <3>7. \A i, j \in DOMAIN batch'[s] : batch'[s][i].proc = batch'[s][j].proc => i = j
      BY <1>0, <3>5, <3>6 DEF Holds
    <3>8. \A i \in DOMAIN batch'[s] : marker'[batch'[s][i].proc] = "LOCKED_FOR_ALLOC"
      BY <1>0, <3>1, <3>2, <3>5, <3>6 DEF TypeOK
    <3>9. \A i \in Pending(s)' : i \in DOMAIN batch'[s]
      BY DEF Pending
    <3> QED BY <3>1, <3>3, <3>4, <3>7, <3>8, <3>9 DEF Holds
  <2>6. CASE NothingClaimed(s)
    BY <2>02, <2>6 DEF NothingClaimed
  <2>7. CASE Filter(s)
    <3>1. PICK f \in [DOMAIN batch[s] -> Slots \cup {NoOffset}] :
              batch' = [batch EXCEPT ![s] = [i \in DOMAIN batch[s] |-> [batch[s][i] EXCEPT !.found = f[i]]]]
      BY <2>7 DEF Filter
    <3>2. /\ spc[s] = "claim" /\ spc'[s] = "update" /\ ready'[s] = <<>> /\ marker' = marker
      BY <1>0, <2>7 DEF Filter, com
    <3>3. batch'[s] = [i \in DOMAIN batch[s] |-> [batch[s][i] EXCEPT !.found = f[i]]]
      BY <1>0, <3>1
    <3>4. DOMAIN batch'[s] = DOMAIN batch[s]
      BY <3>3
    <3>5. \A i \in DOMAIN batch[s] : batch'[s][i].proc = batch[s][i].proc
      <4> SUFFICES ASSUME NEW i \in DOMAIN batch[s] PROVE batch'[s][i].proc = batch[s][i].proc
          OBVIOUS
      <4>1. batch[s][i] \in [proc : Procs, found : Slots \cup {NoOffset}]
        BY <1>0, SeqFacts
      <4> QED BY <3>3, <4>1
    <3>6. \A i \in DOMAIN batch[s] : i \in Pending(s)
      BY <3>2 DEF Pending
    <3>7. \A i \in Pending(s)' : i \in DOMAIN batch[s]
      BY <3>4 DEF Pending
    <3> QED BY <1>0, <2>0, <3>2, <3>4, <3>5, <3>6, <3>7, HoldsOn
  <2>8. CASE OfferKnown(s)
    <3>1. PICK i \in Known(s) : i >= pos[s] /\ pos' = [pos EXCEPT ![s] = i]
      BY <2>8 DEF OfferKnown
    <3>2. /\ spc[s] = "update" /\ spc'[s] = "known" /\ ready[s] = <<>>
          /\ UNCHANGED <<marker, ready, batch>> /\ pos'[s] = i /\ i \in Nat
      BY <1>0, <2>0, <2>8, <3>1 DEF OfferKnown, Holds, Known
    <3>3. Pending(s)' \subseteq Pending(s)
      BY <2>0, <3>1, <3>2 DEF Pending, Known
    <3> QED BY <1>0, <2>0, <3>2, <3>3, HoldsOn
  <2>9. CASE ReleaseKnown(s)
    <3>1. /\ spc[s] = "known" /\ spc'[s] = "update" /\ ready[s] = <<>> /\ pos[s] \in Known(s)
          /\ UNCHANGED <<ready, batch>> /\ pos'[s] = pos[s] + 1
          /\ marker' = [marker EXCEPT ![batch[s][pos[s]].proc] = "CLEARED_FOR_COPY"]
      BY <1>0, <2>9 DEF ReleaseKnown, Holds, Answering, MessageProc
    <3>2. \A i \in Pending(s)' : i \in Pending(s) /\ i # pos[s]
      BY <2>0, <3>1 DEF Pending, Known
    <3>3. pos[s] \in DOMAIN batch[s]
      BY <3>1 DEF Known
    <3>4. \A i \in Pending(s)' : marker'[batch[s][i].proc] = "LOCKED_FOR_ALLOC"
      BY <1>0, <2>0, <3>1, <3>2, <3>3 DEF Holds, TypeOK
    <3> QED BY <1>0, <3>1, <3>4, HoldsOn
  <2>10. CASE AfterUpdates(s)
    <3>1. CASE Wanted(s) = 0
      BY <1>0, <2>02, <2>10, <3>1 DEF AfterUpdates, UpdatesDone, Holds
    <3>2. CASE Wanted(s) # 0
      <4>1. /\ spc[s] = "update" /\ spc'[s] = "memory" /\ ready[s] = <<>> /\ UNCHANGED <<com, ready, batch>>
            /\ \A i \in Known(s) : i < pos[s]
        BY <1>0, <2>10, <3>2 DEF AfterUpdates, UpdatesDone, Holds
      <4>2. Pending(s)' \subseteq Pending(s)
        BY <4>1 DEF Pending, Known
      <4> QED BY <2>01, <4>1, <4>2
    <3> QED BY <3>1, <3>2
  <2>11. CASE CheckMemory(s)
    <3>1. spc[s] = "memory" /\ spc'[s] = "request" /\ ready[s] = <<>> /\ UNCHANGED <<com, ready, batch>>
      BY <1>0, <2>11 DEF CheckMemory, Holds
    <3>2. Pending(s)' \subseteq Pending(s)
      BY <3>1 DEF Pending, Known
    <3> QED BY <2>01, <3>1, <3>2
  <2>12. CASE RequestMemory(s)
    <3>1. /\ spc[s] = "request" /\ spc'[s] \in {"memory", "take"} /\ ready[s] = <<>>
          /\ UNCHANGED <<com, ready, batch>>
      BY <1>0, <2>12 DEF RequestMemory, Holds
    <3>2. Pending(s)' \subseteq Pending(s)
      BY <3>1 DEF Pending, Known
    <3> QED BY <2>01, <3>1, <3>2
  <2>13. CASE TakeFree(s)
    <3>1. spc[s] = "take" /\ spc'[s] = "allot" /\ ready[s] = <<>> /\ UNCHANGED <<com, ready, batch>>
      BY <1>0, <2>13 DEF TakeFree, Holds
    <3>2. Pending(s)' \subseteq Pending(s)
      BY <3>1 DEF Pending, Known
    <3> QED BY <2>01, <3>1, <3>2
  <2>14. CASE TakeFails(s)
    BY <1>0, <2>02, <2>14 DEF TakeFails, Holds
  <2>15. CASE Allot(s)
    <3>1. /\ spc[s] = "allot" /\ spc'[s] = "answer" /\ ready[s] = <<>> /\ UNCHANGED <<com, ready, batch, pos>>
      BY <1>0, <2>15 DEF Allot, Holds
    <3>2. Pending(s)' \subseteq Pending(s)
      BY <3>1 DEF Pending, Known
    <3> QED BY <2>01, <3>1, <3>2
  <2>16. CASE Refuse(s)
    <3>1. /\ spc[s] = "allot" /\ spc'[s] = "allot" /\ ready[s] = <<>> /\ UNCHANGED <<com, ready, batch>>
          /\ pos'[s] = pos[s] + 1
      BY <1>0, <2>16 DEF Refuse, Holds
    <3>2. Pending(s)' \subseteq Pending(s)
      BY <2>0, <3>1 DEF Pending, Known
    <3> QED BY <2>01, <3>1, <3>2
  <2>17. CASE WildMessage(s)
    <3>1. /\ spc[s] = "allot" /\ spc'[s] = "wild" /\ ready[s] = <<>> /\ UNCHANGED <<com, ready, batch>>
      BY <1>0, <2>17 DEF WildMessage, Holds
    <3>2. Pending(s)' \subseteq Pending(s)
      BY <3>1 DEF Pending, Known
    <3> QED BY <2>01, <3>1, <3>2
  <2>18. CASE Answer(s)
    <3>1. /\ spc[s] = "answer" /\ spc'[s] = "release" /\ ready[s] = <<>>
          /\ UNCHANGED <<marker, ready, batch, pos>>
      BY <1>0, <2>18 DEF Answer, Holds
    <3>2. Pending(s)' \subseteq Pending(s)
      BY <3>1 DEF Pending, Known
    <3> QED BY <1>0, <2>0, <3>1, <3>2, HoldsOn
  <2>19. CASE Release(s)
    <3>1. /\ spc[s] = "release" /\ spc'[s] = "store" /\ ready[s] = <<>>
          /\ UNCHANGED <<ready, batch, pos>>
          /\ marker' = [marker EXCEPT ![batch[s][pos[s]].proc] = "CLEARED_FOR_COPY"]
      BY <1>0, <2>19 DEF Release, Holds, MessageProc
    <3>2. pos[s] \in DOMAIN batch[s]
      BY <1>0, <3>1, AtHand DEF Pending
    <3>3. \A i \in Pending(s)' : i \in Pending(s) /\ i # pos[s]
      BY <2>0, <3>1 DEF Pending, Known
    <3>4. \A i \in Pending(s)' : marker'[batch[s][i].proc] = "LOCKED_FOR_ALLOC"
      BY <1>0, <2>0, <3>1, <3>2, <3>3 DEF Holds, TypeOK
    <3> QED BY <1>0, <3>1, <3>4, HoldsOn
  <2>20. CASE StoreInHash(s)
    <3>1. /\ spc[s] = "store" /\ spc'[s] = "allot" /\ ready[s] = <<>> /\ UNCHANGED <<com, ready, batch>>
          /\ pos'[s] = pos[s] + 1
      BY <1>0, <2>20 DEF StoreInHash, Holds
    <3>2. Pending(s)' \subseteq Pending(s)
      BY <2>0, <3>1 DEF Pending, Known
    <3> QED BY <2>01, <3>1, <3>2
  <2>21. CASE Attach(s)
    BY <1>0, <2>02, <2>21 DEF Attach, Holds
  <2>22. CASE WildUpdate(s)
    <3>1. spc[s] = "update" /\ spc'[s] = "wild" /\ ready[s] = <<>> /\ UNCHANGED <<com, ready, batch>>
      BY <1>0, <2>22 DEF WildUpdate, UpdatesDone, Holds
    <3>2. Pending(s)' \subseteq Pending(s)
      BY <3>1 DEF Pending
    <3> QED BY <2>01, <3>1, <3>2
  <2> QED BY <2>1, <2>2, <2>3, <2>4, <2>5, <2>6, <2>7, <2>8, <2>9, <2>10, <2>11, <2>12, <2>13, <2>14, <2>15, <2>16, <2>17, <2>18, <2>19, <2>20, <2>21, <2>22 DEF ServerStep
<1> QED BY <1>1, <1>2

-----------------------------------------------------------------------------
\* Answers

\* A slot is under one key at a time.
LEMMA UnderOne ==
    ASSUME SlotInv, Patient, NEW o \in Slots, NEW k, NEW l, Under(k, o), Under(l, o)
    PROVE  k = l
<1>1. \A e, f \in table : e[2] = f[2] => e = f
  BY DEF SlotInv, SlotsAccounted
<1>2. ASSUME NEW s \in Servers, spc[s] = "store", Allotted(s) = o PROVE \A e \in table : e[2] # o
  <2>1. TypeOK /\ InStep(s) /\ SlotsFresh /\ pos[s] \in DOMAIN batch[s] \ Known(s)
    BY <1>2 DEF SlotInv, TypeInv, InStep, Allotting
  <2>2. pos[s] \in DOMAIN taken[s] /\ pos[s] \in Nat
    BY <1>2, <2>1, SlotForMessage, ReaderFacts DEF Allotting
  <2>3. \A e \in table : e[2] # taken[s][pos[s]]
    BY <2>1, <2>2 DEF SlotsFresh
  <2> QED BY <1>2, <2>3 DEF Allotted
<1>3. CASE <<k, o>> \in table /\ <<l, o>> \in table
  BY <1>1, <1>3
<1>4. CASE ~(<<k, o>> \in table /\ <<l, o>> \in table)
  BY <1>2, <1>4 DEF Under, Patient
<1> QED BY <1>3, <1>4

\* A slot stays under its key: nothing here takes an entry out of the table.
LEMMA UnderReader ==
    ASSUME TypeInv, Patient, NEW s \in Servers, ServerStep(s)
    PROVE  /\ table \subseteq table'
           /\ \A k, o : Under(k, o) => Under(k, o)'
<1>1. CASE StoreInHash(s)
  BY <1>1 DEF StoreInHash, Under, Patient
<1>2. CASE ~StoreInHash(s)
  <2>1. spc[s] # "store" /\ table' = table
    BY <1>2 DEF ServerStep, Scan, ClearFlag, Awake, CheckReady, Lock, NothingClaimed, Filter, OfferKnown, ReleaseKnown, AfterUpdates, UpdatesDone, WildUpdate, CheckMemory, RequestMemory, TakeFree, TakeFails, Allot, Refuse, WildMessage, Answer, Release, Attach, lru
  <2> QED BY <2>1 DEF Under, Patient
<1> QED BY <1>1, <1>2

\* What a client does leaves the slots under their keys, ...
LEMMA UnderAside ==
    ASSUME UNCHANGED <<server, table>>
    PROVE  \A k, o : Under(k, o)' <=> Under(k, o)
BY DEF Under, Allotted, server

\* ... and the messages the reader is answering.
LEMMA AnsweringAside ==
    ASSUME TypeInv, CycleInv, AnswerInv, UNCHANGED <<server, table>>,
           \A q \in Procs : marker[q] # "CLEAR_FOR_WRITE" => hash'[q] = hash[q] /\ offset'[q] = offset[q],
           NEW s \in Servers
    PROVE  Answering(s)'
<1>0. TypeOK /\ Answering(s) /\ Holds(s) /\ pos[s] \in Nat \ {0}
  BY ReaderFacts DEF TypeInv, AnswerInv, CycleInv
<1>1. /\ spc'[s] = spc[s] /\ pos'[s] = pos[s] /\ batch'[s] = batch[s] /\ storing'[s] = storing[s]
      /\ Known(s)' = Known(s) /\ MessageProc(s)' = MessageProc(s) /\ Allotted(s)' = Allotted(s)
  BY DEF server, Known, MessageProc, Allotted
<1>2. \A i \in Pending(s) : /\ batch[s][i].proc \in Procs
                            /\ hash'[batch[s][i].proc] = hash[batch[s][i].proc]
                            /\ offset'[batch[s][i].proc] = offset[batch[s][i].proc]
  BY <1>0, ReaderFacts DEF Holds, Pending
<1>3. spc[s] \in {"update", "known"} => \A i \in Known(s) : i >= pos[s] => i \in Pending(s)
  BY DEF Pending, Known
<1>4. spc[s] \in {"known", "answer", "release"} =>
        /\ hash'[MessageProc(s)] = hash[MessageProc(s)]
        /\ offset'[MessageProc(s)] = offset[MessageProc(s)]
  BY <1>0, <1>2, AtHand DEF MessageProc
<1> QED BY <1>0, <1>1, <1>2, <1>3, <1>4 DEF Answering

\* The reader's own steps: what it finds, it found under the hash of the message, and
\* what it allots goes with the hash it loaded.
LEMMA AnsweringReader ==
    ASSUME TypeInv, CycleInv, AnswerInv, Patient, NEW s \in Servers, ServerStep(s)
    PROVE  Answering(s)'
<1>0. /\ TypeOK /\ InStep(s) /\ Holds(s) /\ Answering(s)
      /\ spc \in [Servers -> ServerPoints] /\ pos \in [Servers -> Nat \ {0}] /\ pos[s] \in Nat
      /\ batch \in [Servers -> Seq([proc : Procs, found : Slots \cup {NoOffset}])]
      /\ hash \in [Procs -> Hashes] /\ offset \in [Procs -> Offsets]
      /\ storing \in [Servers -> Keys \cup {NoKey}]
      /\ \A i \in DOMAIN batch[s] : batch[s][i].proc \in Procs /\ i \in Nat
  <2>1. TypeOK /\ InStep(s) /\ Holds(s) /\ Answering(s)
    BY DEF TypeInv, CycleInv, AnswerInv
  <2>2. pos[s] \in Nat /\ \A i \in DOMAIN batch[s] : batch[s][i].proc \in Procs /\ i \in Nat
    BY <2>1, ReaderFacts
  <2> QED BY <2>1, <2>2 DEF TypeOK
\* Most steps lead to where nothing is being answered.
<1>01. ASSUME spc'[s] \notin {"update", "known", "answer", "release"} PROVE Answering(s)'
  BY <1>01 DEF Answering
<1>1. CASE Filter(s)
  <2>1. PICK f \in [DOMAIN batch[s] -> Slots \cup {NoOffset}] :
            /\ \A i \in DOMAIN batch[s] :
                  LET hits == Lookup(hash[batch[s][i].proc])
                  IN f[i] \in IF hits = {} THEN {NoOffset} ELSE hits
            /\ batch' = [batch EXCEPT ![s] = [i \in DOMAIN batch[s] |-> [batch[s][i] EXCEPT !.found = f[i]]]]
    BY <1>1 DEF Filter
  <2>2. spc'[s] = "update" /\ UNCHANGED <<hash, table>>
    BY <1>0, <1>1 DEF Filter, com, lru
  <2>3. batch'[s] = [i \in DOMAIN batch[s] |-> [batch[s][i] EXCEPT !.found = f[i]]]
    BY <1>0, <2>1
  <2>4. ASSUME NEW i \in Known(s)'
        PROVE  LET h == hash'[batch'[s][i].proc] IN h.stamped /\ <<h.key, batch'[s][i].found>> \in table'
    <3>1. i \in DOMAIN batch[s] /\ batch'[s][i].found # NoOffset
      BY <2>3 DEF Known
    <3>2. batch[s][i] \in [proc : Procs, found : Slots \cup {NoOffset}]
      BY <1>0, <3>1, SeqFacts
    <3>3. batch'[s][i].found = f[i] /\ batch'[s][i].proc = batch[s][i].proc
      BY <2>3, <3>1, <3>2
    <3>4. f[i] \in Lookup(hash[batch[s][i].proc])
      BY <2>1, <3>1, <3>3
    <3>5. batch[s][i].proc \in Procs /\ hash[batch[s][i].proc].key \in Keys
      BY <1>0, <3>1, <3>2 DEF TypeInv, HeldWritten, Written
    <3>6. Hits[hash[batch[s][i].proc].key] \subseteq {hash[batch[s][i].proc].key}
      BY <3>5 DEF Patient, NoMirrored
    <3> QED BY <2>2, <3>3, <3>4, <3>6 DEF Lookup
  <2> QED BY <2>2, <2>4 DEF Answering
<1>2. CASE OfferKnown(s)
  <2>1. PICK i \in Known(s) :
            /\ i >= pos[s] /\ offset' = [offset EXCEPT ![batch[s][i].proc] = batch[s][i].found]
            /\ pos' = [pos EXCEPT ![s] = i]
    BY <1>2 DEF OfferKnown
  <2>2. /\ spc[s] = "update" /\ spc'[s] = "known" /\ UNCHANGED <<hash, table, batch>> /\ pos'[s] = i
        /\ i \in Nat /\ batch[s][i].proc \in Procs
    BY <1>0, <1>2, <2>1 DEF OfferKnown, lru, Known
  <2>3. Known(s)' = Known(s) /\ MessageProc(s)' = batch[s][i].proc
    BY <2>2 DEF Known, MessageProc
  <2>4. offset'[batch[s][i].proc] = batch[s][i].found
    BY <1>0, <2>1, <2>2
  <2>5. \A j \in Known(s) : j >= i => j >= pos[s]
    BY <1>0, <2>1, <2>2 DEF Known
  <2> QED BY <1>0, <2>1, <2>2, <2>3, <2>4, <2>5 DEF Answering
<1>3. CASE ReleaseKnown(s)
  <2>1. /\ spc[s] = "known" /\ spc'[s] = "update" /\ UNCHANGED <<hash, table, batch>>
        /\ pos'[s] = pos[s] + 1
    BY <1>0, <1>3 DEF ReleaseKnown, lru
  <2>2. Known(s)' = Known(s) /\ \A j \in Known(s) : j >= pos[s] + 1 => j >= pos[s]
    BY <1>0, <2>1 DEF Known
  <2> QED BY <1>0, <2>1, <2>2 DEF Answering
<1>4. CASE Allot(s)
  <2>1. /\ spc'[s] = "answer" /\ storing'[s] = hash[MessageProc(s)].key /\ UNCHANGED <<hash, batch, pos>>
    BY <1>0, <1>4 DEF Allot, com
  <2> QED BY <2>1 DEF Answering, MessageProc
<1>5. CASE Answer(s)
  <2>1. pos[s] \in Pending(s)
    BY <1>0, <1>5, AtHand DEF Answer
  <2>2. MessageProc(s) \in Procs
    BY <1>0, <2>1 DEF MessageProc, Pending
  <2>3. /\ spc'[s] = "release" /\ UNCHANGED <<batch, pos, taken, storing>>
        /\ offset' = [offset EXCEPT ![MessageProc(s)] = Allotted(s)]
        /\ hash' = [hash EXCEPT ![MessageProc(s)] = Augmented(storing[s])]
    BY <1>0, <1>5 DEF Answer
  <2>4. MessageProc(s)' = MessageProc(s) /\ Allotted(s)' = Allotted(s)
    BY <2>3 DEF MessageProc, Allotted
  <2>5. offset'[MessageProc(s)] = Allotted(s) /\ hash'[MessageProc(s)] = Augmented(storing[s])
    BY <1>0, <2>2, <2>3
  <2> QED BY <2>3, <2>4, <2>5 DEF Answering, Augmented
<1>6. CASE AfterUpdates(s)
  <2>1. spc'[s] \in {"scan", "memory"}
    BY <1>0, <1>6 DEF AfterUpdates, UpdatesDone, Done
  <2> QED BY <1>01, <2>1
<1>7. CASE ~(Filter(s) \/ OfferKnown(s) \/ ReleaseKnown(s) \/ Allot(s) \/ Answer(s) \/ AfterUpdates(s))
  <2>1. spc'[s] \notin {"update", "known", "answer", "release"}
    BY <1>0, <1>7 DEF ServerStep, Done, Scan, ClearFlag, Awake, CheckReady, Lock, NothingClaimed, CheckMemory, RequestMemory, TakeFree, TakeFails, Refuse, WildMessage, WildUpdate, Release, StoreInHash, Attach
  <2> QED BY <1>01, <2>1
<1> QED BY <1>1, <1>2, <1>3, <1>4, <1>5, <1>6, <1>7

\* A client that is let go has a slot under its own hash.
LEMMA GrantReader ==
    ASSUME TypeInv, CycleInv, AnswerInv, Patient, NEW s \in Servers, ServerStep(s), NEW p \in Procs
    PROVE  Grant(p)'
<1>0. /\ TypeOK /\ InStep(s) /\ Holds(s) /\ Answering(s) /\ Grant(p) /\ InCycle(p)
      /\ marker \in [Procs -> Markers] /\ spc \in [Servers -> ServerPoints]
      /\ \A k, o : Under(k, o) => Under(k, o)'
      /\ cpc'[p] = cpc[p] /\ req'[p] = req[p] /\ got'[p] = got[p]
      /\ marker[p] # "LOCKED_FOR_ALLOC" => hash'[p] = hash[p] /\ offset'[p] = offset[p]
      /\ marker'[p] = "CLEARED_FOR_COPY" => marker[p] \in {"CLEARED_FOR_COPY", "LOCKED_FOR_ALLOC"}
  BY UnderReader, OwnLocals, ReaderMarkers DEF TypeInv, TypeOK, CycleInv, AnswerInv, client
<1>1. cpc'[p] = "copy" => got'[p] \in Slots /\ Under(req[p].hash.key, got[p])'
  BY <1>0 DEF Grant
<1>2. CASE marker[p] = "LOCKED_FOR_ALLOC" /\ marker'[p] = "CLEARED_FOR_COPY" /\ cpc[p] \in {"wake", "await"}
  <2>1. ReleaseKnown(s) \/ Release(s)
    <3>1. CASE Lock(s)
      <4>1. Head(ready[s]) \in Procs
        <5>1. ready[s] # <<>> /\ Head(ready[s]) = ready[s][1] /\ 1 \in DOMAIN ready[s]
          BY <1>0, <3>1, ReaderFacts DEF Lock, InStep
        <5> QED BY <1>0, <5>1, ReaderFacts
      <4> QED BY <1>0, <1>2, <3>1, <4>1 DEF Lock
    <3>2. CASE ~Lock(s) /\ ~ReleaseKnown(s) /\ ~Release(s)
      <4>1. marker' = marker
        BY <3>2 DEF ServerStep, Scan, ClearFlag, Awake, CheckReady, NothingClaimed, Filter, OfferKnown, AfterUpdates, UpdatesDone, WildUpdate, CheckMemory, RequestMemory, TakeFree, TakeFails, Allot, Refuse, WildMessage, Answer, StoreInHash, Attach, com
      <4> QED BY <1>2, <4>1
    <3> QED BY <3>1, <3>2
  <2>2. MessageProc(s) = p /\ UNCHANGED <<hash, offset>>
    <3>1. MessageProc(s) \in Procs
      <4>1. pos[s] \in Pending(s)
        BY <1>0, <2>1, AtHand DEF ReleaseKnown, Release
      <4> QED BY <1>0, <4>1, ReaderFacts DEF MessageProc, Pending
    <3> QED BY <1>0, <1>2, <2>1, <3>1 DEF ReleaseKnown, Release
  <2>3. hash[p].key = req[p].hash.key
    BY <1>0, <1>2 DEF InCycle
  <2>4. CASE ReleaseKnown(s)
    <3>1. /\ spc[s] = "known" /\ pos[s] \in Known(s) /\ offset[p] = batch[s][pos[s]].found
          /\ hash[p].stamped /\ <<hash[p].key, batch[s][pos[s]].found>> \in table
      <4>1. spc[s] = "known" /\ pos[s] \in Known(s) /\ pos[s] \in Nat
        BY <1>0, <2>4, ReaderFacts DEF ReleaseKnown, Answering
      <4> QED BY <1>0, <2>2, <4>1 DEF Answering, MessageProc
    <3>2. offset[p] \in Slots
      BY <1>0, <3>1, BatchFacts DEF Known
    <3>3. Under(req[p].hash.key, offset[p])
      BY <2>3, <3>1 DEF Under
    <3> QED BY <1>0, <1>1, <2>2, <3>1, <3>2, <3>3 DEF Grant
  <2>5. CASE Release(s)
    <3>1. /\ spc[s] = "release" /\ spc'[s] = "store" /\ UNCHANGED <<pos, taken, storing>>
          /\ offset[p] = Allotted(s) /\ hash[p].stamped /\ storing[s] = hash[p].key
      BY <1>0, <2>2, <2>5 DEF Release, Answering
    <3>2. offset[p] \in Slots
      BY <1>0, <3>1, SlotForMessage DEF InStep, Allotting
    <3>3. Under(req[p].hash.key, offset[p])'
      BY <1>0, <2>2, <2>3, <3>1 DEF Under, Allotted
    <3> QED BY <1>0, <1>1, <2>2, <3>1, <3>2, <3>3 DEF Grant
  <2> QED BY <2>1, <2>4, <2>5
<1>3. CASE ~(marker[p] = "LOCKED_FOR_ALLOC" /\ marker'[p] = "CLEARED_FOR_COPY" /\ cpc[p] \in {"wake", "await"})
  BY <1>0, <1>1, <1>3 DEF Grant
<1> QED BY <1>2, <1>3

\* A client's step: what it was granted is what it copies to.
LEMMA AnswerClient ==
    ASSUME SlotInv, CycleInv, AnswerInv, Patient, NEW p \in Procs, StartPut(p) \/ BusyPut(p) \/ ClientStep(p)
    PROVE  AnswerInv'
<1>0. /\ TypeInv /\ TypeOK /\ InCycle(p) /\ Copied /\ \A q \in Procs : Grant(q)
      /\ UNCHANGED <<server, table>> /\ \A k, o : Under(k, o)' <=> Under(k, o)
      /\ ~TimedOut(p) /\ RequestWritten(p)
  BY ClientMarkers, UnderAside DEF SlotInv, TypeInv, CycleInv, AnswerInv
<1>1. ASSUME NEW s \in Servers PROVE Answering(s)'
  BY <1>0, ClientMarkers, AnsweringAside
<1>2. ASSUME NEW q \in Procs \ {p} PROVE Grant(q)'
  BY <1>0, ClientMarkers DEF Grant
<1>3. Grant(p)'
  <2> USE <1>0 DEF Grant
  <2>1. CASE StartPut(p)
    BY <2>1 DEF StartPut, TypeOK
  <2>2. CASE BusyPut(p)
    BY <2>2 DEF BusyPut, com, client
  <2>3. CASE WriteRequest(p)
    BY <2>3 DEF WriteRequest, TypeOK
  <2>4. CASE Submit(p)
    BY <2>4 DEF Submit, TypeOK
  <2>5. CASE WakeReader(p)
    BY <2>5 DEF WakeReader, TypeOK, com
  <2>6. CASE Granted(p)
    BY <2>6 DEF Granted, MayCopy, TypeOK, com
  <2>7. CASE CopyData(p)
    BY <2>7 DEF CopyData, TypeOK, com
  <2>8. CASE Return(p)
    BY <2>8 DEF Return, TypeOK
  <2> QED BY <2>1, <2>2, <2>3, <2>4, <2>5, <2>6, <2>7, <2>8 DEF ClientStep
<1>4. Copied'
  <2>1. CASE CopyData(p)
    <3> DEFINE o == got[p]
               k == req[p].hash.key
    <3>1. cpc[p] = "copy" /\ o \in Slots /\ Under(k, o) /\ hash[p].key = k /\ req[p].tier = 0
      BY <1>0, <2>1 DEF CopyData, Grant, InCycle, TypeOK, Patient
    <3>2. /\ data' = [data EXCEPT ![o] = k] /\ wild' = wild /\ back' = [back EXCEPT ![p] = hash[p]]
          /\ issued' = issued
      BY <2>1, <3>1 DEF CopyData
    <3>3. data'[o] = k /\ back'[p].key = k
      BY <1>0, <3>1, <3>2 DEF TypeOK
    <3>4. \A x \in Slots : data[x] # NoKey => data'[x] = data[x]
      <4> SUFFICES ASSUME NEW x \in Slots, data[x] # NoKey PROVE data'[x] = data[x]
          OBVIOUS
      <4>1. CASE x = o
        BY <1>0, <3>1, <3>3, <4>1, UnderOne DEF Copied
      <4>2. CASE x # o
        BY <1>0, <3>2, <4>2 DEF TypeOK
      <4> QED BY <4>1, <4>2
    <3>5. \A x \in Slots : (data[x] # NoKey => Under(data[x], x))'
      <4> SUFFICES ASSUME NEW x \in Slots, data'[x] # NoKey PROVE Under(data[x], x)'
          OBVIOUS
      <4>1. CASE x = o
        BY <1>0, <3>1, <3>3, <4>1
      <4>2. CASE x # o
        <5>1. data'[x] = data[x]
          BY <1>0, <3>2, <4>2 DEF TypeOK
        <5> QED BY <1>0, <5>1 DEF Copied
      <4> QED BY <4>1, <4>2
    <3>6. \A q \in Procs : back'[q].key # NoKey => \E x \in Slots : data'[x] = back'[q].key
      <4> SUFFICES ASSUME NEW q \in Procs, back'[q].key # NoKey
          PROVE  \E x \in Slots : data'[x] = back'[q].key
          OBVIOUS
      <4>1. CASE q = p
        BY <3>1, <3>3, <4>1
      <4>2. CASE q # p
        <5>1. back'[q] = back[q]
          BY <1>0, <3>2, <4>2 DEF TypeOK
        <5> QED BY <1>0, <3>4, <5>1 DEF Copied
      <4> QED BY <4>1, <4>2
    <3>7. \A l \in issued' : \E x \in Slots : data'[x] = l
      <4>1. \A l \in issued : l # NoKey
        BY <1>0, PutAssumption DEF TypeOK
      <4> QED BY <1>0, <3>2, <3>4, <4>1 DEF Copied
    <3> QED BY <1>0, <3>2, <3>5, <3>6, <3>7 DEF Copied
  <2>2. CASE Return(p)
    <3>1. /\ UNCHANGED <<data, wild>> /\ back' = [back EXCEPT ![p] = NoHash]
          /\ issued' = IF back[p].stamped THEN issued \cup {back[p].key} ELSE issued
      BY <2>2 DEF Return
    <3>2. back[p].stamped => back[p].key # NoKey
      BY <1>0, PutAssumption DEF RequestWritten
    <3>3. \A q \in Procs : back'[q].key # NoKey => back'[q] = back[q]
      BY <1>0, <3>1 DEF TypeOK, NoHash
    <3> QED BY <1>0, <3>1, <3>2, <3>3 DEF Copied
  <2>3. CASE ~(CopyData(p) \/ Return(p))
    <3>1. UNCHANGED <<data, wild, back, issued>>
      BY <1>0, <2>3 DEF StartPut, BusyPut, ClientStep, WriteRequest, Submit, WakeReader, Granted, store, client
    <3> QED BY <1>0, <3>1 DEF Copied
  <2> QED BY <2>1, <2>2, <2>3
<1> QED BY <1>1, <1>2, <1>3, <1>4 DEF AnswerInv

\* A reader's step, for all the parts at once.
LEMMA AnswerReader ==
    ASSUME TypeInv, CycleInv, AnswerInv, Patient, NEW s \in Servers, ServerStep(s)
    PROVE  CycleInv' /\ AnswerInv'
<1>1. \A t \in Servers : t = s
  BY DEF Patient
<1>2. CycleInv'
  BY <1>1, CycleReader DEF CycleInv
<1>3. (\A t \in Servers : Answering(t)') /\ (\A p \in Procs : Grant(p)')
  BY <1>1, AnsweringReader, GrantReader
<1>4. Copied'
  <2>1. UNCHANGED <<data, wild, back, issued>>
    BY OwnLocals DEF TypeInv, client
  <2>2. \A k, o : Under(k, o) => Under(k, o)'
    BY UnderReader
  <2> QED BY <2>1, <2>2 DEF AnswerInv, Copied
<1> QED BY <1>2, <1>3, <1>4 DEF AnswerInv

\* The strengthening of the answer properties that every step preserves
AnswersInv == SlotInv /\ CycleInv /\ AnswerInv

\* At first nothing was asked, answered or copied.
LEMMA AnswersInit == ASSUME Patient PROVE Init => AnswersInv
<1> SUFFICES ASSUME Init PROVE AnswersInv
  OBVIOUS
<1>1. SlotInv
  BY TypeInit, SlotsInit DEF SlotInv
<1>2. CycleInv
  <2>1. ASSUME NEW p \in Procs PROVE InCycle(p)
    BY <2>1 DEF Init, InCycle
  <2>2. ASSUME NEW s \in Servers PROVE Holds(s)
    <3>1. batch[s] = <<>> /\ ready[s] = <<>> /\ DOMAIN batch[s] = {} /\ DOMAIN ready[s] = {}
      BY DEF Init
    <3> QED BY <3>1 DEF Holds, Pending, IsInjective
  <2> QED BY <2>1, <2>2 DEF CycleInv
<1>3. AnswerInv
  BY DEF Init, AnswerInv, Answering, Grant, Copied, NoHash
<1> QED BY <1>1, <1>2, <1>3 DEF AnswersInv

\* Every step of the tier keeps it.
LEMMA AnswersStep == ASSUME Patient PROVE AnswersInv /\ [Next]_vars => AnswersInv'
<1> SUFFICES ASSUME AnswersInv, [Next]_vars PROVE AnswersInv'
  OBVIOUS
<1>1. SlotInv' /\ SlotInv /\ TypeInv /\ CycleInv /\ AnswerInv
  BY SlotStep DEF AnswersInv, SlotInv
<1>2. ASSUME NEW p \in Procs, StartPut(p) \/ BusyPut(p) \/ ClientStep(p) PROVE AnswersInv'
  BY <1>1, <1>2, CycleClient, AnswerClient DEF AnswersInv
<1>3. ASSUME NEW s \in Servers, ServerStep(s) PROVE AnswersInv'
  BY <1>1, <1>3, AnswerReader DEF AnswersInv
<1>4. CASE UNCHANGED vars
  <2>1. /\ UNCHANGED <<server, table, marker, hash, offset, cpc, req, got, back, data, wild, issued>>
        /\ \A k, o : Under(k, o)' <=> Under(k, o)
    BY <1>4, UnderAside DEF vars, com, client, lru, store
  <2>2. ASSUME NEW s \in Servers PROVE Holds(s)' /\ Answering(s)'
    BY <1>1, <2>1, ReaderFacts, HoldsAside, AnsweringAside DEF CycleInv, TypeInv
  <2>3. ASSUME NEW p \in Procs PROVE InCycle(p)' /\ Grant(p)'
    BY <1>1, <2>1 DEF CycleInv, AnswerInv, InCycle, Grant
  <2>4. Copied'
    BY <1>1, <2>1 DEF AnswerInv, Copied
  <2> QED BY <1>1, <2>2, <2>3, <2>4 DEF AnswersInv, CycleInv, AnswerInv
<1> QED BY <1>2, <1>3, <1>4 DEF Next

\* The inductive invariant holds throughout.
LEMMA AnswersInvariant == ASSUME Patient PROVE Spec => []AnswersInv
BY AnswersInit, AnswersStep, PTL DEF Spec

-----------------------------------------------------------------------------
\* What a put can rely on

\* A client is let go with a slot of the tier and its own hash, stamped
\* (await_write_offset, second_phase_write_handler).
THEOREM PutGetsItsAnswer == ASSUME Patient PROVE Spec => []GrantIsForTheRequest
<1>1. ASSUME AnswersInv PROVE GrantIsForTheRequest
  <2> SUFFICES ASSUME NEW p \in Procs, marker[p] = "CLEARED_FOR_COPY", cpc[p] \in {"submit", "wake", "await"}
      PROVE  offset[p] \in Slots /\ hash[p] = [key |-> req[p].hash.key, stamped |-> TRUE]
      BY DEF GrantIsForTheRequest
  <2>1. InCycle(p) /\ Grant(p) /\ hash[p] \in Hashes
    BY <1>1 DEF AnswersInv, CycleInv, AnswerInv, SlotInv, TypeInv, TypeOK
  <2>2. cpc[p] \in {"wake", "await"}
    BY <2>1 DEF InCycle
  <2>3. offset[p] \in Slots /\ hash[p].stamped /\ hash[p].key = req[p].hash.key
    BY <2>1, <2>2 DEF InCycle, Grant
  <2>4. hash[p] = [key |-> hash[p].key, stamped |-> hash[p].stamped] /\ hash[p].stamped = TRUE
    BY <2>1, <2>3 DEF Hashes
  <2> QED BY <2>3, <2>4
<1> QED BY <1>1, AnswersInvariant, PTL

\* Two clients are sent to one slot only to write one key.
THEOREM PutsShareNoSlot == ASSUME Patient PROVE Spec => []GrantsAgree
<1>1. ASSUME AnswersInv PROVE GrantsAgree
  <2> SUFFICES ASSUME NEW p \in Procs, NEW q \in Procs, cpc[p] = "copy", cpc[q] = "copy", got[p] = got[q]
      PROVE  req[p].hash.key = req[q].hash.key
      BY DEF GrantsAgree
  <2>1. got[p] \in Slots /\ Under(req[p].hash.key, got[p]) /\ Under(req[q].hash.key, got[p]) /\ SlotInv
    BY <1>1 DEF AnswersInv, AnswerInv, Grant
  <2> QED BY <2>1, UnderOne
<1> QED BY <1>1, AnswersInvariant, PTL

\* The slot under a hash holds that key's data, or none yet.
THEOREM PutKeepsKeysApart == ASSUME Patient PROVE Spec => []NeverAnothersData
<1>1. ASSUME AnswersInv PROVE NeverAnothersData
  <2> SUFFICES ASSUME NEW e \in table PROVE data[e[2]] \in {e[1], NoKey}
      BY DEF NeverAnothersData
  <2>1. SlotInv /\ Copied /\ e[2] \in Slots /\ e = <<e[1], e[2]>>
    <3>1. SlotInv /\ Copied /\ table \subseteq Keys \X Slots
      BY <1>1 DEF AnswersInv, AnswerInv, SlotInv, TypeInv, TypeOK
    <3> QED BY <3>1
  <2>2. Under(e[1], e[2])
    BY <2>1 DEF Under
  <2>3. data[e[2]] # NoKey => Under(data[e[2]], e[2])
    BY <2>1 DEF Copied
  <2> QED BY <2>1, <2>2, <2>3, UnderOne
<1> QED BY <1>1, AnswersInvariant, PTL

\* put_method copies only into the slot it was given.
THEOREM PutStaysInside == ASSUME Patient PROVE Spec => []CopiesStayInside
<1>1. AnswersInv => CopiesStayInside
  BY DEF AnswersInv, AnswerInv, Copied, CopiesStayInside
<1> QED BY <1>1, AnswersInvariant, PTL

\* The data of a hash that was handed back is in a slot under that hash, or the
\* reader is about to store the pair.
THEOREM PutIsStored == ASSUME Patient PROVE Spec => []ReturnedIsStored
<1>1. ASSUME AnswersInv PROVE ReturnedIsStored
  <2> SUFFICES ASSUME NEW k \in issued
      PROVE  \E o \in Slots : /\ data[o] = k
                              /\ \/ <<k, o>> \in table
                                 \/ \E s \in Servers : storing[s] = k /\ taken[s][pos[s]] = o
      BY DEF ReturnedIsStored
  <2>1. Copied /\ k # NoKey
    BY <1>1, PutAssumption DEF AnswersInv, AnswerInv, SlotInv, TypeInv, TypeOK
  <2>2. PICK o \in Slots : data[o] = k
    BY <2>1 DEF Copied
  <2>3. Under(k, o)
    BY <2>1, <2>2 DEF Copied
  <2> QED BY <2>2, <2>3 DEF Under, Allotted
<1> QED BY <1>1, AnswersInvariant, PTL

\* A marker only moves round its cycle: client, reader, reader, client.
THEOREM MarkersGoRound == ASSUME Patient PROVE Spec => MarkerCycle
<1> DEFINE Round == \A p \in Procs : marker'[p] # marker[p] =>
        <<marker[p], marker'[p]>> \in
            {<<"CLEAR_FOR_WRITE", "CLEARED_FOR_ALLOC">>, <<"CLEARED_FOR_ALLOC", "LOCKED_FOR_ALLOC">>,
             <<"LOCKED_FOR_ALLOC", "CLEARED_FOR_COPY">>, <<"CLEARED_FOR_COPY", "CLEAR_FOR_WRITE">>}
<1>1. ASSUME AnswersInv, [Next]_vars PROVE [Round]_vars
  <2>1. TypeOK /\ TypeInv /\ CycleInv /\ AnswerInv
    BY <1>1 DEF AnswersInv, SlotInv, TypeInv
  <2>2. ASSUME NEW p \in Procs, StartPut(p) \/ BusyPut(p) \/ ClientStep(p) PROVE Round
    BY <2>1, <2>2, ClientMarkers
  <2>3. ASSUME NEW s \in Servers, ServerStep(s) PROVE Round
    BY <2>1, <2>3, ReaderMarkers
  <2> QED BY <1>1, <2>2, <2>3 DEF Next
<1> QED BY <1>1, AnswersInvariant, PTL DEF Spec, MarkerCycle

-----------------------------------------------------------------------------
\* _memory_requested

\* What a reader does when it looks for no memory and will look for none next
LEMMA CountStays ==
    ASSUME NEW s \in Servers, MemoryCounted(s), requested' = requested,
           spc[s] \notin {"memory", "request", "take"},
           \/ asked'[s] = FALSE /\ spc'[s] \notin {"request", "take"}
           \/ asked'[s] = asked[s] /\ spc'[s] \notin {"memory", "request", "take"}
              /\ (spc[s] \in Allotting => spc'[s] \in Allotting \cup {"wild"})
              /\ spc[s] # "wild"
    PROVE  MemoryCounted(s)'
BY DEF MemoryCounted

\* One reader's own step keeps the count.
LEMMA CountStep ==
    ASSUME TypeInv, NEW s \in Servers, MemoryCounted(s), ServerStep(s)
    PROVE  MemoryCounted(s)'
<1>0. /\ spc \in [Servers -> ServerPoints] /\ asked \in [Servers -> BOOLEAN] /\ enough \in [Servers -> BOOLEAN]
      /\ taken \in [Servers -> Seq(Slots)]
      /\ Wanted(s) \in Nat /\ requested \in Nat /\ free \in Seq(Slots) /\ Len(free) \in Nat
  <2>1. TypeOK
    BY DEF TypeInv
  <2>2. Wanted(s) \in Nat
    BY <2>1, BatchFacts
  <2>3. free \in Seq(Slots)
    BY <2>1 DEF TypeOK
  <2>4. Len(free) \in Nat
    BY <2>3
  <2> QED BY <2>1, <2>2, <2>3, <2>4 DEF TypeOK
<1>1. CASE CheckMemory(s)
  <2>1. /\ spc[s] = "memory" /\ spc'[s] = "request" /\ UNCHANGED <<asked, requested, free, batch>>
        /\ enough'[s] = (Len(free) >= requested + More(s))
    BY <1>0, <1>1 DEF CheckMemory, lru
  <2>2. Wanted(s)' = Wanted(s)
    BY <2>1 DEF Wanted, Known
  <2>3. requested + More(s) = Wanted(s)
    BY <1>0, <2>1 DEF MemoryCounted, More
  <2> QED BY <1>0, <2>1, <2>2, <2>3 DEF MemoryCounted
<1>2. CASE RequestMemory(s)
  <2>1. /\ spc[s] = "request" /\ asked'[s] = TRUE /\ UNCHANGED <<free, batch>>
        /\ spc'[s] = (IF enough[s] THEN "take" ELSE "memory") /\ requested' = requested + More(s)
    BY <1>0, <1>2 DEF RequestMemory
  <2>2. Wanted(s)' = Wanted(s)
    BY <2>1 DEF Wanted, Known
  <2>3. requested + More(s) = Wanted(s)
    BY <1>0, <2>1 DEF MemoryCounted, More
  <2> QED BY <1>0, <2>1, <2>2, <2>3 DEF MemoryCounted
<1>3. CASE TakeFree(s)
  <2>1. /\ spc[s] = "take" /\ spc'[s] = "allot" /\ UNCHANGED asked
        /\ requested' = IF requested <= Wanted(s) THEN 0 ELSE requested - Wanted(s)
    BY <1>0, <1>3 DEF TakeFree
  <2>2. requested = Wanted(s)
    BY <2>1 DEF MemoryCounted
  <2> QED BY <1>0, <2>1, <2>2 DEF MemoryCounted, Allotting
<1>4. CASE TakeFails(s)
  BY <1>0, <1>4 DEF TakeFails, MemoryCounted
<1>5. CASE NothingClaimed(s)
  BY <1>0, <1>5, CountStays DEF NothingClaimed, Done, lru
<1>6. CASE AfterUpdates(s)
  <2>1. asked[s] = FALSE
    BY <1>0, <1>6 DEF AfterUpdates, UpdatesDone, MemoryCounted, Allotting
  <2> QED BY <1>0, <1>6, <2>1, CountStays DEF AfterUpdates, UpdatesDone, Done, lru
<1>7. CASE Attach(s)
  BY <1>0, <1>7, CountStays DEF Attach, Done
<1>8. CASE Scan(s) \/ ClearFlag(s) \/ Awake(s) \/ CheckReady(s) \/ Lock(s) \/ Filter(s) \/ OfferKnown(s) \/ ReleaseKnown(s)
  <2>1. /\ spc[s] \in {"scan", "sleep", "wait", "claim", "lock", "update", "known"} /\ UNCHANGED <<asked, requested>>
        /\ spc'[s] \in {"scan", "sleep", "wait", "claim", "lock", "update", "known"}
    BY <1>0, <1>8 DEF Scan, ClearFlag, Awake, CheckReady, Lock, Filter, OfferKnown, ReleaseKnown, lru
  <2> QED BY <2>1, CountStays DEF Allotting
<1>9. CASE Allot(s) \/ Refuse(s) \/ WildMessage(s) \/ Answer(s) \/ Release(s) \/ StoreInHash(s)
  <2>1. /\ spc[s] \in Allotting /\ spc'[s] \in Allotting \cup {"wild"} /\ UNCHANGED <<asked, requested>>
    BY <1>0, <1>9 DEF Allot, Refuse, WildMessage, Answer, Release, StoreInHash, Allotting, lru
  <2> QED BY <2>1, CountStays DEF Allotting
<1>10. CASE WildUpdate(s)
  <2>1. /\ spc[s] = "update" /\ spc'[s] = "wild" /\ UNCHANGED <<asked, requested>>
    BY <1>0, <1>10 DEF WildUpdate, UpdatesDone, lru
  <2> QED BY <2>1, CountStays DEF Allotting
<1> QED BY <1>1, <1>2, <1>3, <1>4, <1>5, <1>6, <1>7, <1>8, <1>9, <1>10 DEF ServerStep

\* A lone reader's requests are counted once each (check_and_maybe_request_free_mem,
\* free_mem_claim_satisfied); the clients may be as many and as impatient as they like.
THEOREM MemoryIsRequestedOnce == Spec => []RequestedIsWanted
<1> DEFINE Counted == \A s \in Servers : Servers = {s} => MemoryCounted(s)
<1>1. Init => Counted
  BY DEF Init, MemoryCounted
<1>2. ASSUME TypeInv, Counted, [Next]_vars PROVE Counted'
  <2> SUFFICES ASSUME NEW s \in Servers, Servers = {s} PROVE MemoryCounted(s)'
      OBVIOUS
  <2>1. MemoryCounted(s)
    BY <1>2
  <2>2. ASSUME UNCHANGED <<server, free, requested>> PROVE MemoryCounted(s)'
    BY <2>1, <2>2 DEF MemoryCounted, Wanted, Known, server
  <2>3. ASSUME NEW p \in Procs, StartPut(p) \/ BusyPut(p) \/ ClientStep(p) PROVE MemoryCounted(s)'
    <3>1. UNCHANGED <<server, free, requested>>
      BY <2>3 DEF StartPut, BusyPut, ClientStep, WriteRequest, Submit, WakeReader, Granted, TimedOut, CopyData, Return, lru
    <3> QED BY <2>2, <3>1
  <2>4. ASSUME NEW t \in Servers, ServerStep(t) PROVE MemoryCounted(s)'
    BY <1>2, <2>1, <2>4, CountStep
  <2>5. CASE UNCHANGED vars
    BY <2>2, <2>5 DEF vars, lru
  <2> QED BY <1>2, <2>3, <2>4, <2>5 DEF Next
<1>3. Counted => RequestedIsWanted
  BY DEF MemoryCounted, RequestedIsWanted
<1> QED BY <1>1, <1>2, <1>3, TypeInvariant, PTL DEF Spec

=============================================================================
