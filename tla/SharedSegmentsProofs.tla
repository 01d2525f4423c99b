------------------------ MODULE SharedSegmentsProofs ------------------------
(***************************************************************************)
(* Proofs about the shared segments, for any set of processes, any list of *)
(* keys, any number of segments and of crashes: the types, that a process  *)
(* knows every segment it is attached to, that an initializer works on     *)
(* segments of its own making only, and that the last one out removes the  *)
(* segment.  The four are proved from one inductive invariant, SegInv.     *)
(***************************************************************************)
EXTENDS SharedSegments, TLAPS

Starting == {"get", "stat", "at"}

\* A process that has not started is attached to nothing.
Off(p) ==
    pc[p] = "off" =>
        /\ idx[p] = 1 /\ key[p] = Order[1] /\ ~ok[p]
        /\ \A k \in Keys : addrs[p][k] = None
        /\ \A s \in Segments : p \notin att[s]

\* A process that attaches has no address yet for the keys still to come.
Unset(p) ==
    pc[p] \in Starting =>
        /\ key[p] = Order[idx[p]] /\ ~ok[p]
        /\ \A j \in idx[p]..Len(Order) : addrs[p][Order[j]] = None
        /\ pc[p] # "get" => res[p] \in Made
        /\ pc[p] = "at" => key[p] \in sized[p]

\* What it is attached to is among the sizes too, so detach_all finds it.
Known(p) ==
    \A s \in Segments : p \in att[s] => \E k \in sized[p] : addrs[p][k] = s

\* After shmdt the address of the key is nothing it is attached to.
Gone(p) ==
    pc[p] \in {"nattch", "rmid"} =>
        /\ res[p] \in Made /\ addrs[p][key[p]] \in Made
        /\ p \notin att[addrs[p][key[p]]]

Own(p, s) == s \in Made /\ maker[s] = p

\* An initializer made every segment it has come to.
OwnSoFar(p) ==
    /\ init[p] /\ pc[p] \in Starting =>
          /\ pc[p] # "stat"
          /\ \A j \in 1..(idx[p] - 1) : Own(p, tables[p][Order[j]])
          /\ pc[p] = "at" => Own(p, res[p])
    /\ init[p] /\ ok[p] => \A k \in Keys : Own(p, tables[p][k])

\* A segment keeps its key: no other key leads to it.
NameKept(p) ==
    \A l \in Keys :
        /\ \A k \in Keys :
              addrs[p][k] \in Made /\ live[l] = addrs[p][k] => k = l
        /\ pc[p] \in {"stat", "at"} /\ live[l] = res[p] => key[p] = l

\* A detach that goes by an old address does not touch a segment in use.
SameOrDead(p) ==
    pc[p] = "shmdt" =>
        /\ res[p] \in Made
        /\ addrs[p][key[p]] \in Made =>
              \/ addrs[p][key[p]] = res[p]
              \/ \A k \in Keys : live[k] # addrs[p][key[p]]

LocalInv(p) ==
    /\ Off(p) /\ Unset(p) /\ Known(p) /\ Gone(p)
    /\ OwnSoFar(p) /\ NameKept(p) /\ SameOrDead(p)

OneName == \A k, l \in Keys : live[k] # None /\ live[k] = live[l] => k = l

\* While nobody crashes a segment with a key has somebody attached, or its
\* creator on the way to attach, or somebody on the way to remove it, but
\* when the creator did not get there and nobody else has.
Minds(p, s) ==
    res[p] = s /\ (pc[p] \in {"nattch", "rmid"} \/ (pc[p] = "at" /\ init[p]))

Minded ==
    crashes = 0 =>
        \A k \in Keys : live[k] \notin failed \cup {None} =>
            att[live[k]] # {} \/ \E p \in Processes : Minds(p, live[k])

SegInv ==
    /\ SegTypeOK
    /\ \A p \in Processes : LocalInv(p)
    /\ OneName
    /\ Minded

-----------------------------------------------------------------------------

LEMMA SegFacts ==
    /\ None = 0 /\ Null = MaxSegments + 1 /\ MaxSegments \in Nat
    /\ Order[1] \in Keys /\ \A j \in 1..Len(Order) : Order[j] \in Keys
    /\ \A k \in Keys : \E j \in 1..Len(Order) : k = Order[j]
    /\ Len(Order) \in Nat /\ 1 \in 1..Len(Order)
    /\ \A i, j \in 1..Len(Order) : Order[i] = Order[j] => i = j
BY OrderAssumption, BoundsAssumption DEF None, Null, Keys

LEMMA MadeFacts ==
    ASSUME SegTypeOK
    PROVE  /\ Made \subseteq Segments /\ None \notin Made /\ Null \notin Made
           /\ None \notin Segments /\ Null \notin Segments
<1>1. Len(maker) \in Nat /\ Len(maker) <= MaxSegments
  BY DEF SegTypeOK
<1> QED BY <1>1, SegFacts DEF Made, Segments

\* What a step of p leaves to another process.
Same(q) ==
    /\ pc'[q] = pc[q] /\ init'[q] = init[q] /\ ok'[q] = ok[q]
    /\ idx'[q] = idx[q] /\ key'[q] = key[q] /\ res'[q] = res[q]
    /\ addrs'[q] = addrs[q] /\ sized'[q] = sized[q] /\ tables'[q] = tables[q]

\* What a step of p may do to the system: name a new segment, take a name
\* away, attach or detach p.
SystemStep(p) ==
    /\ Len(maker) <= Len(maker') /\ \A s \in Made : maker'[s] = maker[s]
    /\ \A k \in Keys : live'[k] = live[k] \/ live'[k] \notin Made
    /\ \A q \in Processes \ {p}, s \in Segments : q \in att'[s] <=> q \in att[s]

LEMMA SystemSame ==
    ASSUME SegTypeOK, NEW p \in Processes, UNCHANGED <<live, att, maker>>
    PROVE  SystemStep(p)
BY DEF SystemStep, SegTypeOK

LEMMA OthersKept ==
    ASSUME SegTypeOK, SegTypeOK', NEW p \in Processes, NEW q \in Processes,
           q # p, LocalInv(q), Same(q), SystemStep(p)
    PROVE  LocalInv(q)'
<1>1. Made \subseteq Made' /\ Made \subseteq Segments
  BY SegFacts DEF SystemStep, SegTypeOK, Made, Segments
<1>2. key[q] \in Keys /\ idx[q] \in 1..Len(Order)
  BY DEF SegTypeOK
<1>3. /\ \A k \in Keys : addrs[q][k] \in Made' => addrs[q][k] \in Made
      /\ res[q] \in Made' => res[q] \in Made
  <2>1. None \notin Made' /\ Null \notin Made'
    <3>1. Len(maker') \in Nat /\ Len(maker') <= MaxSegments
      BY DEF SegTypeOK
    <3> QED BY <3>1, SegFacts DEF Made
  <2>2. /\ \A k \in Keys : addrs[q][k] \in Made \cup {None, Null}
        /\ res[q] \in Made \cup {None}
    BY DEF SegTypeOK
  <2> QED BY <2>1, <2>2
<1>4. Off(q)'
  BY DEF LocalInv, Off, Same, SystemStep
<1>5. Unset(q)'
  BY <1>1 DEF LocalInv, Unset, Same
<1>6. Known(q)'
  BY DEF LocalInv, Known, Same, SystemStep
<1>7. Gone(q)'
  BY <1>1, <1>2, <1>3 DEF LocalInv, Gone, Same, SystemStep
<1>8. OwnSoFar(q)'
  BY <1>1 DEF LocalInv, OwnSoFar, Own, Same, SystemStep
<1>9. NameKept(q)'
  BY <1>3 DEF LocalInv, NameKept, Unset, Starting, Same, SystemStep
<1>10. SameOrDead(q)'
  BY <1>1, <1>2, <1>3 DEF LocalInv, SameOrDead, Same, SystemStep
<1> QED BY <1>4, <1>5, <1>6, <1>7, <1>8, <1>9, <1>10 DEF LocalInv

\* The parts of SegInv a step of p has to be shown to keep.
LEMMA StepKeeps ==
    ASSUME SegInv, NEW p \in Processes, SegTypeOK', SystemStep(p),
           \A q \in Processes \ {p} : Same(q),
           LocalInv(p)', OneName', Minded'
    PROVE  SegInv'
BY OthersKept DEF SegInv

\* A step at whose end p is in no call, or at the head of detach_all, and
\* that changes nothing but what it has at hand and its sizes.
LEMMA CallEnds ==
    ASSUME SegInv, NEW p \in Processes, SegTypeOK',
           UNCHANGED <<live, att, maker, crashes, init, ok, addrs, tables>>,
           \A q \in Processes \ {p} : Same(q),
           pc'[p] \in {"up", "loop"}, sized[p] \subseteq sized'[p],
           failed \subseteq failed',
           \A k \in Keys : Minds(p, live[k]) /\ live[k] \notin failed' \cup {None} => att[live[k]] # {}
    PROVE  SegInv'
<1>1. LocalInv(p)
  BY DEF SegInv
<1>2. LocalInv(p)'
  BY <1>1 DEF LocalInv, Off, Unset, Known, Gone, OwnSoFar, Own, NameKept, SameOrDead, Starting, Made
<1>3. OneName'
  BY DEF SegInv, OneName
<1>4. Minded'
  BY DEF SegInv, Minded, Minds, Same
<1>5. SystemStep(p)
  BY SystemSame DEF SegInv
<1> QED BY <1>2, <1>3, <1>4, <1>5, StepKeeps

LEMMA InitInv == Init => SegInv
<1> SUFFICES ASSUME Init PROVE SegInv
  OBVIOUS
<1>1. SegTypeOK
  BY SegFacts DEF Init, SegTypeOK, Made, Segments
<1>2. ASSUME NEW p \in Processes PROVE LocalInv(p)
  <2>1. Off(p) /\ Known(p)
    BY SegFacts DEF Init, Off, Known
  <2>2. Unset(p) /\ Gone(p) /\ SameOrDead(p) /\ OwnSoFar(p)
    BY DEF Init, Unset, Gone, SameOrDead, OwnSoFar, Starting
  <2>3. NameKept(p)
    BY SegFacts DEF Init, NameKept, Made
  <2> QED BY <2>1, <2>2, <2>3 DEF LocalInv
<1>3. OneName /\ Minded
  BY DEF Init, OneName, Minded
<1> QED BY <1>1, <1>2, <1>3 DEF SegInv

LEMMA FailTypes ==
    ASSUME SegTypeOK, NEW p \in Processes, Fail(p), sized' \in [Processes -> SUBSET Keys],
           UNCHANGED <<live, att, maker, crashes, all, addrs>>, failed' \subseteq Made,
           pc[p] \in Starting
    PROVE  SegTypeOK'
BY SegFacts DEF SegTypeOK, Fail, Clear, Locals, Goto, Set, Made, Starting

\* region_intialization_ops gives up.
LEMMA FailStep ==
    ASSUME SegInv, NEW p \in Processes, Fail(p), pc[p] \in Starting, sized' = sized,
           UNCHANGED <<live, att, maker, crashes, all, addrs>>,
           failed \subseteq failed', failed' \subseteq Made,
           \A k \in Keys : Minds(p, live[k]) /\ live[k] \notin failed' \cup {None} => att[live[k]] # {}
    PROVE  SegInv'
<1>1. SegTypeOK'
  BY FailTypes DEF SegInv, SegTypeOK
<1>2. pc'[p] = "up" /\ \A q \in Processes \ {p} : Same(q)
  BY DEF Fail, Clear, Locals, Goto, Set, Same, SegInv, SegTypeOK
<1>3. UNCHANGED <<live, att, maker, crashes, init, ok, addrs, tables>>
  BY DEF Fail
<1> QED BY <1>1, <1>2, <1>3, CallEnds

LEMMA StartStep ==
    ASSUME SegInv, NEW p \in Processes, NEW i \in BOOLEAN, Start(p, i)
    PROVE  SegInv'
<1>1. SegTypeOK'
  BY DEF SegInv, SegTypeOK, Start, Goto, Set, system, request, Made
<1>2. pc'[p] = "get" /\ pc[p] = "off" /\ \A q \in Processes \ {p} : Same(q)
  BY DEF Start, Goto, Set, Same, SegInv, SegTypeOK, request
<1>3. UNCHANGED <<live, att, maker, crashes, failed, ok, idx, key, res, addrs, sized, tables>>
  BY DEF Start, system, request
<1>4. LocalInv(p)'
  <2>1. LocalInv(p) /\ Made' = Made /\ ~ok[p] /\ idx[p] = 1
    BY <1>2, <1>3 DEF SegInv, LocalInv, Off, Made
  <2>2. Off(p)' /\ Known(p)' /\ Gone(p)' /\ SameOrDead(p)' /\ NameKept(p)'
    BY <1>2, <1>3, <2>1 DEF LocalInv, Off, Known, Gone, SameOrDead, NameKept
  <2>3. Unset(p)'
    BY <1>2, <1>3, <2>1, SegFacts DEF LocalInv, Off, Unset, Starting
  <2>4. OwnSoFar(p)'
    BY <1>2, <1>3, <2>1 DEF OwnSoFar, Starting
  <2> QED BY <2>2, <2>3, <2>4 DEF LocalInv
<1>5. OneName' /\ Minded'
  BY <1>2, <1>3 DEF SegInv, OneName, Minded, Minds, Same
<1>6. SystemStep(p)
  BY <1>3, SystemSame DEF SegInv
<1> QED BY <1>1, <1>2, <1>4, <1>5, <1>6, StepKeeps

LEMMA CreateStep ==
    ASSUME SegInv, NEW p \in Processes, Create(p)
    PROVE  SegInv'
<1>0. pc[p] = "get" /\ init[p] /\ key[p] \in Keys
  BY DEF Create, SegInv, SegTypeOK
<1>1. CASE Fail(p) /\ UNCHANGED <<system, all, addrs, sized>>
  BY <1>0, <1>1, FailStep DEF Starting, Minds, system, SegInv, SegTypeOK
<1>2. CASE ~(Fail(p) /\ UNCHANGED <<system, all, addrs, sized>>)
  <2> DEFINE n == Len(maker) + 1
  <2>1. /\ n \in Nat /\ n <= MaxSegments /\ n \notin Made
        /\ live' = [live EXCEPT ![key[p]] = n]
        /\ maker' = Append(maker, p)
        /\ UNCHANGED <<att, crashes, failed, start, addrs>>
    BY <1>0, <1>2, SegFacts DEF Create, SegInv, SegTypeOK, Made, Set
  <2>2. Made' = Made \cup {n} /\ maker'[n] = p /\ \A s \in Made : maker'[s] = maker[s]
    BY <2>1 DEF SegInv, SegTypeOK, Made
  <2>3. /\ pc' = [pc EXCEPT ![p] = "at"] /\ res' = [res EXCEPT ![p] = n]
        /\ sized' = [sized EXCEPT ![p] = sized[p] \cup {key[p]}]
        /\ UNCHANGED <<key, force, all>>
    BY <1>0, <1>2 DEF Create, Goto, Set
  <2>4. SegTypeOK'
    <3>1. live' \in [Keys -> Made' \cup {None}] /\ res' \in [Processes -> Made' \cup {None}]
      BY <1>0, <2>1, <2>2, <2>3 DEF SegInv, SegTypeOK
    <3>2. /\ addrs' \in [Processes -> [Keys -> Made' \cup {None, Null}]]
          /\ tables' \in [Processes -> [Keys -> Made' \cup {None}]]
      BY <2>1, <2>2 DEF SegInv, SegTypeOK, start
    <3>3. maker' \in Seq(Processes) /\ Len(maker') <= MaxSegments
      BY <2>1 DEF SegInv, SegTypeOK
    <3>4. \A q \in Processes : all'[q] => pc'[q] \in {"loop", "shmdt", "nattch", "rmid"}
      BY <1>0, <2>3 DEF SegInv, SegTypeOK
    <3>5. failed' \subseteq Made'
      BY <2>1, <2>2 DEF SegInv, SegTypeOK
    <3> QED BY <1>0, <2>1, <2>3, <3>1, <3>2, <3>3, <3>4, <3>5 DEF SegInv, SegTypeOK, start
  <2>5. \A q \in Processes \ {p} : Same(q)
    BY <2>1, <2>3 DEF Same, SegInv, SegTypeOK, start
  <2>6. /\ pc'[p] = "at" /\ res'[p] = n /\ sized'[p] = sized[p] \cup {key[p]}
        /\ live'[key[p]] = n
        /\ \A k \in Keys \ {key[p]} : live'[k] = live[k] /\ live[k] # n
    BY <1>0, <2>1, <2>3, SegFacts DEF SegInv, SegTypeOK
  <2>7. SystemStep(p)
    BY <1>0, <2>1, <2>2, <2>6 DEF SystemStep, SegInv, SegTypeOK, Made
  <2>8. LocalInv(p)'
    <3>1. LocalInv(p) /\ key'[p] = key[p] /\ UNCHANGED <<init, ok, idx, tables, addrs, att>>
      BY <2>1, <2>3 DEF SegInv, start
    <3>2. Off(p)' /\ Gone(p)' /\ SameOrDead(p)'
      BY <2>6 DEF Off, Gone, SameOrDead
    <3>3. Unset(p)'
      BY <1>0, <2>2, <2>6, <3>1 DEF LocalInv, Unset, Starting
    <3>4. Known(p)'
      BY <2>6, <3>1 DEF LocalInv, Known
    <3>5. OwnSoFar(p)'
      BY <1>0, <2>2, <2>6, <3>1 DEF LocalInv, OwnSoFar, Own, Starting, Unset
    <3>6. NameKept(p)'
      <4>1. \A k \in Keys : addrs[p][k] \in Made' => addrs[p][k] \in Made
        <5>1. None # n /\ Null # n
          BY <2>1, SegFacts
        <5> QED BY <2>2, <5>1 DEF SegInv, SegTypeOK
      <4>2. \A k \in Keys : addrs[p][k] # n \/ addrs[p][k] \notin Made'
        BY <4>1, <2>1
      <4> QED BY <2>6, <3>1, <4>1, <2>1 DEF LocalInv, NameKept
    <3> QED BY <3>2, <3>3, <3>4, <3>5, <3>6 DEF LocalInv
  <2>9. OneName'
    BY <1>0, <2>6, SegFacts DEF SegInv, OneName
  <2>10. Minded'
    <3> SUFFICES ASSUME crashes' = 0, NEW k \in Keys, live'[k] \notin failed' \cup {None}
                 PROVE  \/ att'[live'[k]] # {}
                        \/ \E q \in Processes :
                              /\ res'[q] = live'[k]
                              /\ pc'[q] \in {"nattch", "rmid"} \/ (pc'[q] = "at" /\ init'[q])
      BY DEF Minded, Minds
    <3>1. CASE k = key[p]
      BY <1>0, <2>1, <2>6, <3>1 DEF start
    <3>2. CASE k # key[p]
      <4>1. att[live[k]] # {} \/ \E q \in Processes : Minds(q, live[k])
        BY <2>1, <2>6, <3>2 DEF SegInv, Minded
      <4> QED BY <1>0, <2>1, <2>5, <2>6, <3>2, <4>1 DEF Minds, Same
    <3> QED BY <3>1, <3>2
  <2> QED BY <2>4, <2>5, <2>7, <2>8, <2>9, <2>10, StepKeeps
<1> QED BY <1>0, <1>1, <1>2 DEF Create

LEMMA FindStep ==
    ASSUME SegInv, NEW p \in Processes, Find(p)
    PROVE  SegInv'
<1>0. pc[p] = "get" /\ ~init[p] /\ key[p] \in Keys /\ UNCHANGED <<system, all, addrs, sized>>
  BY DEF Find, SegInv, SegTypeOK
<1>1. CASE live[key[p]] = None /\ Fail(p)
  BY <1>0, <1>1, FailStep DEF Starting, Minds, system, SegInv, SegTypeOK
<1>2. CASE /\ live[key[p]] # None /\ res' = Set(res, p, live[key[p]])
           /\ Goto(p, "stat") /\ UNCHANGED <<start, key, force>>
  <2>1. SegTypeOK'
    BY <1>0, <1>2 DEF SegInv, SegTypeOK, Goto, Set, start, system, Made
  <2>2. /\ pc'[p] = "stat" /\ res'[p] = live[key[p]] /\ live[key[p]] \in Made
        /\ \A q \in Processes \ {p} : Same(q)
    BY <1>0, <1>2 DEF Goto, Set, Same, SegInv, SegTypeOK, start
  <2>3. UNCHANGED <<live, att, maker, crashes, failed, init, ok, idx, key, addrs, sized, tables>>
    BY <1>0, <1>2 DEF start, system
  <2>4. LocalInv(p)'
    <3>1. LocalInv(p) /\ OneName /\ Made' = Made
      BY <2>3 DEF SegInv, Made
    <3>2. Off(p)' /\ Gone(p)' /\ SameOrDead(p)' /\ Known(p)' /\ OwnSoFar(p)'
      BY <1>0, <2>2, <2>3, <3>1 DEF LocalInv, Off, Gone, SameOrDead, Known, OwnSoFar, Unset, Starting
    <3>3. Unset(p)'
      BY <1>0, <2>2, <2>3, <3>1 DEF LocalInv, Unset, Starting
    <3>4. NameKept(p)'
      BY <1>0, <1>2, <2>2, <2>3, <3>1 DEF LocalInv, NameKept, OneName
    <3> QED BY <3>2, <3>3, <3>4 DEF LocalInv
  <2>5. OneName' /\ Minded'
    BY <1>0, <2>2, <2>3 DEF SegInv, OneName, Minded, Minds, Same
  <2>6. SystemStep(p)
    BY <2>3, SystemSame DEF SegInv
  <2> QED BY <2>1, <2>2, <2>4, <2>5, <2>6, StepKeeps
<1> QED BY <1>1, <1>2 DEF Find

LEMMA StatStep ==
    ASSUME SegInv, NEW p \in Processes, Stat(p)
    PROVE  SegInv'
<1>0. pc[p] = "stat" /\ key[p] \in Keys /\ UNCHANGED <<system, all, addrs>>
  BY DEF Stat, SegInv, SegTypeOK
<1>1. CASE ~Exists(res[p]) /\ Fail(p) /\ UNCHANGED sized
  BY <1>0, <1>1, FailStep DEF Starting, Minds, system, SegInv, SegTypeOK
<1>2. CASE /\ sized' = Set(sized, p, sized[p] \cup {key[p]})
           /\ Goto(p, "at") /\ UNCHANGED <<start, key, res, force>>
  <2>1. SegTypeOK'
    BY <1>0, <1>2 DEF SegInv, SegTypeOK, Goto, Set, start, system, Made
  <2>2. /\ pc'[p] = "at" /\ sized'[p] = sized[p] \cup {key[p]}
        /\ \A q \in Processes \ {p} : Same(q)
    BY <1>0, <1>2 DEF Goto, Set, Same, SegInv, SegTypeOK, start
  <2>3. UNCHANGED <<live, att, maker, crashes, failed, init, ok, idx, key, res, addrs, tables>>
    BY <1>0, <1>2 DEF start, system
  <2>4. LocalInv(p)'
    <3>1. LocalInv(p) /\ Made' = Made
      BY <2>3 DEF SegInv, Made
    <3>2. Off(p)' /\ Gone(p)' /\ SameOrDead(p)' /\ OwnSoFar(p)' /\ NameKept(p)'
      BY <1>0, <2>2, <2>3, <3>1 DEF LocalInv, Off, Gone, SameOrDead, OwnSoFar, NameKept, Unset, Starting
    <3>3. Unset(p)' /\ Known(p)'
      BY <1>0, <2>2, <2>3, <3>1 DEF LocalInv, Unset, Known, Starting
    <3> QED BY <3>2, <3>3 DEF LocalInv
  <2>5. OneName' /\ Minded'
    BY <1>0, <2>2, <2>3 DEF SegInv, OneName, Minded, Minds, Same
  <2>6. SystemStep(p)
    BY <2>3, SystemSame DEF SegInv
  <2> QED BY <2>1, <2>2, <2>4, <2>5, <2>6, StepKeeps
<1> QED BY <1>1, <1>2 DEF Stat

LEMMA AttachStep ==
    ASSUME SegInv, NEW p \in Processes, Attach(p)
    PROVE  SegInv'
<1>0. /\ pc[p] = "at" /\ key[p] \in Keys /\ LocalInv(p) /\ SegTypeOK
      /\ idx[p] \in 1..Len(Order) /\ res[p] \in Made /\ UNCHANGED sized
  BY DEF Attach, SegInv, LocalInv, Unset, Starting, SegTypeOK
<1>1. CASE /\ Fail(p) /\ failed' = Stranded(p)
           /\ UNCHANGED <<live, att, maker, crashes, all, addrs>>
  <2>1. failed \subseteq failed' /\ failed' \subseteq Made
    BY <1>0, <1>1 DEF Stranded, SegTypeOK
  <2>2. \A k \in Keys : Minds(p, live[k]) /\ live[k] \notin failed' \cup {None} => att[live[k]] # {}
    BY <1>0, <1>1, MadeFacts DEF Stranded, Exists, Minds
  <2> QED BY <1>0, <1>1, <2>1, <2>2, FailStep DEF Starting
<1>2. CASE ~(/\ Fail(p) /\ failed' = Stranded(p)
             /\ UNCHANGED <<live, att, maker, crashes, all, addrs>>)
  <2>1. /\ att' = [att EXCEPT ![res[p]] = @ \cup {p}]
        /\ addrs' = [addrs EXCEPT ![p][key[p]] = res[p]]
        /\ tables' = [tables EXCEPT ![p][key[p]] = res[p]]
        /\ UNCHANGED <<live, maker, crashes, init, all, sized>>
        /\ failed' = failed \ {res[p]}
    BY <1>0, <1>2 DEF Attach
  <2>2. \/ /\ idx[p] < Len(Order) /\ idx' = [idx EXCEPT ![p] = idx[p] + 1]
           /\ key' = [key EXCEPT ![p] = Order[idx[p] + 1]]
           /\ pc' = [pc EXCEPT ![p] = "get"]
           /\ UNCHANGED ok
        \/ /\ idx[p] >= Len(Order) /\ idx' = [idx EXCEPT ![p] = 1]
           /\ key' = [key EXCEPT ![p] = Order[1]]
           /\ pc' = [pc EXCEPT ![p] = "up"]
           /\ ok' = [ok EXCEPT ![p] = TRUE]
    BY <1>0, <1>2, SegFacts DEF Attach, Locals, Clear, Goto, Set
  <2>3. res' = [res EXCEPT ![p] = None] /\ force' = [force EXCEPT ![p] = FALSE]
    BY <1>0, <1>2 DEF Attach, Locals, Clear, Set
  <2>4. SegTypeOK'
    <3>1. Made' = Made /\ res[p] \in Segments
      BY <1>0, <2>1, SegFacts DEF SegTypeOK, Made, Segments
    <3>2. /\ att' \in [Segments -> SUBSET Processes]
          /\ addrs' \in [Processes -> [Keys -> Made \cup {None, Null}]]
          /\ tables' \in [Processes -> [Keys -> Made \cup {None}]]
          /\ res' \in [Processes -> Made \cup {None}]
      BY <1>0, <2>1, <2>3, <3>1 DEF SegTypeOK
    <3>3. /\ idx' \in [Processes -> 1..Len(Order)]
          /\ key' \in [Processes -> Keys]
      <4>1. idx[p] < Len(Order) =>
                idx[p] + 1 \in 1..Len(Order) /\ Order[idx[p] + 1] \in Keys
        BY <1>0, SegFacts
      <4>2. 1 \in 1..Len(Order)
        BY SegFacts, Zenon
      <4>3. Order[1] \in Keys
        BY SegFacts, Zenon
      <4>4. idx \in [Processes -> 1..Len(Order)] /\ key \in [Processes -> Keys]
        BY <1>0 DEF SegTypeOK
      <4>5. PICK i \in 1..Len(Order), k \in Keys :
                idx' = [idx EXCEPT ![p] = i] /\ key' = [key EXCEPT ![p] = k]
        BY <2>2, <4>1, <4>2, <4>3
      <4> QED BY <4>4, <4>5
    <3>4. \A q \in Processes : all'[q] => pc'[q] \in {"loop", "shmdt", "nattch", "rmid"}
      BY <1>0, <2>1, <2>2 DEF SegTypeOK
    <3>5. pc' \in [Processes -> {"off", "get", "stat", "at", "up", "loop",
                                 "shmdt", "nattch", "rmid"}]
      BY <1>0, <2>2 DEF SegTypeOK
    <3>6. ok' \in [Processes -> BOOLEAN]
      BY <1>0, <2>2 DEF SegTypeOK
    <3> QED
      BY <1>0, <2>1, <2>3, <3>1, <3>2, <3>3, <3>4, <3>5, <3>6 DEF SegTypeOK
  <2>5. \A q \in Processes \ {p} : Same(q)
    BY <1>0, <2>1, <2>2, <2>3 DEF Same, SegTypeOK
  <2>6. SystemStep(p)
    BY <1>0, <2>1 DEF SystemStep, SegTypeOK
  <2>7. /\ addrs'[p][key[p]] = res[p] /\ tables'[p][key[p]] = res[p]
        /\ \A k \in Keys \ {key[p]} :
              addrs'[p][k] = addrs[p][k] /\ tables'[p][k] = tables[p][k]
        /\ \A s \in Segments : p \in att'[s] <=> p \in att[s] \/ s = res[p]
        /\ init'[p] = init[p] /\ sized'[p] = sized[p] /\ Made' = Made
    BY <1>0, <2>1, SegFacts DEF SegTypeOK, Made, Segments
  <2>8. \/ /\ idx[p] < Len(Order) /\ idx'[p] = idx[p] + 1
           /\ key'[p] = Order[idx[p] + 1] /\ pc'[p] = "get" /\ ok'[p] = ok[p]
        \/ idx[p] = Len(Order) /\ pc'[p] = "up" /\ ok'[p] = TRUE
    BY <1>0, <2>2, SegFacts DEF SegTypeOK
  <2>9. LocalInv(p)'
    <3>1. key[p] = Order[idx[p]] /\ key[p] \in sized[p]
      BY <1>0 DEF LocalInv, Unset, Starting
    <3>2. Off(p)' /\ Gone(p)' /\ SameOrDead(p)'
      BY <2>8 DEF Off, Gone, SameOrDead
    <3>3. Unset(p)'
      <4> SUFFICES ASSUME pc'[p] = "get" PROVE Unset(p)'
        BY <2>8 DEF Unset, Starting
      <4>1. \A j \in idx'[p]..Len(Order) : Order[j] # key[p] /\ Order[j] \in Keys
        BY <1>0, <2>8, <3>1, SegFacts
      <4>2. \A j \in idx'[p]..Len(Order) : addrs[p][Order[j]] = None
        BY <1>0, <2>8, SegFacts DEF LocalInv, Unset, Starting
      <4>3. ~ok[p]
        BY <1>0 DEF LocalInv, Unset, Starting
      <4> QED BY <2>7, <2>8, <4>1, <4>2, <4>3 DEF Unset
    <3>4. Known(p)'
      <4>1. addrs[p][key[p]] = None
        BY <1>0, <3>1, SegFacts DEF LocalInv, Unset, Starting
      <4>2. None \notin Segments /\ sized[p] \subseteq Keys
        BY <1>0, SegFacts DEF SegTypeOK, Segments
      <4> QED BY <1>0, <2>7, <3>1, <4>1, <4>2 DEF LocalInv, Known
    <3>5. OwnSoFar(p)'
      <4>1. \A s : Own(p, s)' <=> Own(p, s)
        BY <2>1, <2>7 DEF Own
      <4>2. init[p] => \A j \in 1..idx[p] : Own(p, tables'[p][Order[j]])
        <5> SUFFICES ASSUME init[p], NEW j \in 1..idx[p] PROVE Own(p, tables'[p][Order[j]])
          OBVIOUS
        <5>1. CASE j = idx[p]
          BY <1>0, <2>7, <3>1, <5>1 DEF LocalInv, OwnSoFar, Starting
        <5>2. CASE j # idx[p]
          <6>1. j \in 1..(idx[p] - 1) /\ Order[j] # key[p] /\ Order[j] \in Keys
            BY <1>0, <3>1, <5>2, SegFacts
          <6> QED BY <1>0, <2>7, <6>1 DEF LocalInv, OwnSoFar, Starting
        <5> QED BY <5>1, <5>2
      <4>3. CASE pc'[p] = "get"
        <5>1. 1..(idx'[p] - 1) = 1..idx[p] /\ ~ok'[p]
          BY <1>0, <2>8, <4>3, SegFacts DEF LocalInv, Unset, Starting
        <5> QED BY <2>7, <4>1, <4>2, <4>3, <5>1 DEF OwnSoFar, Own
      <4>4. CASE pc'[p] = "up"
        <5>1. \A k \in Keys : \E j \in 1..idx[p] : k = Order[j]
          BY <2>8, <4>4, SegFacts
        <5> QED BY <2>7, <4>1, <4>2, <4>4, <5>1 DEF OwnSoFar, Own, Starting
      <4> QED BY <2>8, <4>3, <4>4
    <3>6. NameKept(p)'
      BY <1>0, <2>1, <2>7, <2>8 DEF LocalInv, NameKept
    <3> QED BY <3>2, <3>3, <3>4, <3>5, <3>6 DEF LocalInv
  <2>10. OneName'
    BY <2>1 DEF SegInv, OneName
  <2>11. Minded'
    <3> SUFFICES ASSUME crashes = 0, NEW k \in Keys, live[k] \notin failed' \cup {None}
                 PROVE  \/ att'[live[k]] # {}
                        \/ \E q \in Processes :
                              /\ res'[q] = live[k]
                              /\ pc'[q] \in {"nattch", "rmid"} \/ (pc'[q] = "at" /\ init'[q])
      BY <2>1 DEF Minded, Minds
    <3>1. live[k] \in Segments
      BY <1>0, MadeFacts DEF SegTypeOK
    <3>2. att[live[k]] \subseteq att'[live[k]]
      BY <1>0, <2>1, <3>1 DEF SegTypeOK
    <3>3. live[k] = res[p] => p \in att'[live[k]]
      BY <1>0, <2>7, <3>1
    <3>4. live[k] # res[p] => att[live[k]] # {} \/ \E q \in Processes : Minds(q, live[k])
      BY <2>1 DEF SegInv, Minded
    <3> QED BY <2>5, <3>2, <3>3, <3>4 DEF Minds, Same
  <2> QED BY <2>4, <2>5, <2>6, <2>9, <2>10, <2>11, StepKeeps
<1> QED BY <1>1, <1>2

\* A call ends.
LEMMA ReturnStep ==
    ASSUME SegInv, NEW p \in Processes, Return(p),
           pc[p] \in {"up", "loop", "shmdt", "nattch", "rmid"},
           all[p] => pc[p] # "up",
           UNCHANGED <<live, att, maker, crashes, failed, start, all, addrs, sized>>,
           \A k \in Keys : Minds(p, live[k]) /\ live[k] # None => att[live[k]] # {}
    PROVE  SegInv'
<1>1. SegTypeOK'
  BY SegFacts DEF SegInv, SegTypeOK, Return, Locals, Goto, Set, start, Made
<1>2. pc'[p] \in {"up", "loop"} /\ \A q \in Processes \ {p} : Same(q)
  BY DEF Return, Locals, Goto, Set, Same, start, SegInv, SegTypeOK
<1>3. UNCHANGED <<init, ok, tables>>
  BY DEF start
<1> QED BY <1>1, <1>2, <1>3, CallEnds

LEMMA LookUpStep ==
    ASSUME SegInv, NEW p \in Processes, NEW k \in Keys, NEW f \in BOOLEAN,
           pc[p] \in {"up", "loop"}, LookUp(p, k, f)
    PROVE  SegInv'
<1>0. LocalInv(p) /\ SegTypeOK /\ UNCHANGED <<system, start, all, sized>>
  BY DEF SegInv, LookUp
<1>1. CASE live[k] = None /\ Return(p) /\ UNCHANGED addrs
  BY <1>0, <1>1, ReturnStep DEF Minds, system, SegTypeOK
<1>2. CASE /\ live[k] # None /\ Locals(p, k, live[k], f) /\ Goto(p, "shmdt")
           /\ addrs' = [addrs EXCEPT ![p][k] = IF @ = None THEN Null ELSE @]
  <2>1. /\ UNCHANGED <<live, att, maker, crashes, failed, init, ok, idx, tables, sized>>
        /\ Made' = Made /\ live[k] \in Made
    BY <1>0, <1>2 DEF system, start, Made, SegTypeOK
  <2>2. /\ pc' = [pc EXCEPT ![p] = "shmdt"] /\ key' = [key EXCEPT ![p] = k]
        /\ res' = [res EXCEPT ![p] = live[k]] /\ force' = [force EXCEPT ![p] = f]
    BY <1>2 DEF Locals, Goto, Set
  <2>3. SegTypeOK'
    <3>1. addrs' \in [Processes -> [Keys -> Made \cup {None, Null}]]
      BY <1>0, <1>2 DEF SegTypeOK
    <3> QED BY <1>0, <2>1, <2>2, <3>1 DEF SegTypeOK
  <2>4. \A q \in Processes \ {p} : Same(q)
    BY <1>0, <1>2, <2>1, <2>2 DEF Same, SegTypeOK
  <2>5. /\ pc'[p] = "shmdt" /\ key'[p] = k /\ res'[p] = live[k]
        /\ \A l \in Keys : addrs'[p][l] # addrs[p][l] =>
                               addrs[p][l] = None /\ addrs'[p][l] = Null
    <3>1. addrs \in [Processes -> [Keys -> Made \cup {None, Null}]]
      BY <1>0 DEF SegTypeOK
    <3>2. \A l \in Keys : addrs'[p][l] # addrs[p][l] =>
                             addrs[p][l] = None /\ addrs'[p][l] = Null
      BY <1>2, <3>1
    <3> QED BY <1>0, <2>2, <3>2 DEF SegTypeOK
  <2>6. None \notin Segments /\ Null \notin Segments /\ Null \notin Made /\ Made \subseteq Segments
    BY <1>0, MadeFacts
  <2>7. LocalInv(p)'
    <3>1. Off(p)' /\ Unset(p)' /\ Gone(p)' /\ OwnSoFar(p)'
      BY <1>0, <2>1, <2>5 DEF LocalInv, Off, Unset, Gone, OwnSoFar, Own, Starting
    <3>2. Known(p)'
      <4> SUFFICES ASSUME NEW t \in Segments, p \in att[t]
                   PROVE  \E l \in sized[p] : addrs'[p][l] = t
        BY <2>1 DEF Known
      <4>1. PICK l \in sized[p] : addrs[p][l] = t
        BY <1>0 DEF LocalInv, Known
      <4>2. l \in Keys
        BY <1>0 DEF SegTypeOK
      <4> QED BY <2>5, <2>6, <4>1, <4>2
    <3>3. NameKept(p)'
      BY <1>0, <2>1, <2>5, <2>6 DEF LocalInv, NameKept
    <3>4. SameOrDead(p)'
      <4>1. addrs'[p][k] \in Made => addrs[p][k] = addrs'[p][k]
        BY <2>5, <2>6
      <4>2. \A l \in Keys : addrs[p][k] \in Made /\ live[l] = addrs[p][k] => k = l
        BY <1>0 DEF LocalInv, NameKept
      <4> QED BY <2>1, <2>5, <4>1, <4>2 DEF SameOrDead
    <3> QED BY <3>1, <3>2, <3>3, <3>4 DEF LocalInv
  <2>8. OneName' /\ Minded'
    BY <2>1, <2>4 DEF SegInv, OneName, Minded, Minds, Same
  <2>9. SystemStep(p)
    BY <1>0, <2>1, SystemSame
  <2> QED BY <2>3, <2>4, <2>7, <2>8, <2>9, StepKeeps
<1> QED BY <1>1, <1>2 DEF LookUp

LEMMA ShmdtStep ==
    ASSUME SegInv, NEW p \in Processes, Shmdt(p)
    PROVE  SegInv'
<1> DEFINE s == addrs[p][key[p]]
<1>0. /\ pc[p] = "shmdt" /\ LocalInv(p) /\ SegTypeOK /\ key[p] \in Keys
      /\ UNCHANGED <<live, maker, crashes, failed, start, all, addrs, sized>>
  BY DEF SegInv, Shmdt, SegTypeOK
<1>1. CASE (s \in Segments => p \notin att[s]) /\ Return(p) /\ UNCHANGED att
  BY <1>0, <1>1, ReturnStep DEF Minds
<1>2. CASE /\ s \in Segments /\ p \in att[s]
           /\ att' = [att EXCEPT ![s] = @ \ {p}]
           /\ Goto(p, "nattch") /\ UNCHANGED <<key, res, force>>
  <2>1. /\ UNCHANGED <<live, maker, crashes, failed, init, ok, idx, key, res, tables, addrs, sized>>
        /\ Made' = Made
    BY <1>0, <1>2 DEF start, Made
  <2>2. SegTypeOK'
    <3>1. att' \in [Segments -> SUBSET Processes]
      BY <1>0, <1>2 DEF SegTypeOK
    <3>2. pc' = [pc EXCEPT ![p] = "nattch"] /\ UNCHANGED <<force, all>>
      BY <1>0, <1>2 DEF Goto
    <3> QED BY <1>0, <2>1, <3>1, <3>2 DEF SegTypeOK
  <2>3. pc'[p] = "nattch" /\ \A q \in Processes \ {p} : Same(q)
    BY <1>0, <1>2, <2>1 DEF Goto, Same, SegTypeOK
  <2>4. /\ \A t \in Segments : p \in att'[t] <=> p \in att[t] /\ t # s
        /\ \A t \in Segments \ {s} : att'[t] = att[t]
        /\ \A q \in Processes \ {p}, t \in Segments : q \in att'[t] <=> q \in att[t]
    BY <1>0, <1>2 DEF SegTypeOK
  <2>5. s \in Made /\ res[p] \in Made
    <3>1. s \in Made \cup {None, Null}
      BY <1>0 DEF SegTypeOK
    <3>2. res[p] \in Made
      BY <1>0 DEF LocalInv, SameOrDead
    <3> QED BY <1>0, <1>2, <3>1, <3>2, MadeFacts
  <2>6. LocalInv(p)'
    <3>1. Off(p)' /\ Unset(p)' /\ SameOrDead(p)' /\ OwnSoFar(p)' /\ NameKept(p)'
      BY <1>0, <2>1, <2>3 DEF LocalInv, Off, Unset, SameOrDead, OwnSoFar, Own, NameKept, Starting
    <3>2. Known(p)'
      BY <1>0, <2>1, <2>4 DEF LocalInv, Known
    <3>3. Gone(p)'
      BY <1>2, <2>1, <2>4, <2>5 DEF Gone
    <3> QED BY <3>1, <3>2, <3>3 DEF LocalInv
  <2>7. OneName'
    BY <2>1 DEF SegInv, OneName
  <2>8. Minded'
    <3> SUFFICES ASSUME crashes = 0, NEW k \in Keys, live[k] \notin failed' \cup {None}
                 PROVE  \/ att'[live[k]] # {}
                        \/ \E q \in Processes :
                              /\ res'[q] = live[k]
                              /\ pc'[q] \in {"nattch", "rmid"} \/ (pc'[q] = "at" /\ init'[q])
      BY <2>1 DEF Minded, Minds
    <3>1. live[k] \in Segments
      BY <1>0, MadeFacts DEF SegTypeOK
    <3>2. CASE live[k] = s
      BY <1>0, <2>1, <2>3, <2>5, <3>2 DEF LocalInv, SameOrDead
    <3>3. CASE live[k] # s
      <4>1. att[live[k]] # {} \/ \E q \in Processes : Minds(q, live[k])
        BY <1>0 DEF SegInv, Minded
      <4> QED BY <1>0, <2>3, <2>4, <3>1, <3>3, <4>1 DEF Minds, Same
    <3> QED BY <3>2, <3>3
  <2>9. SystemStep(p)
    BY <1>0, <2>1, <2>4 DEF SystemStep, SegTypeOK
  <2> QED BY <2>2, <2>3, <2>6, <2>7, <2>8, <2>9, StepKeeps
<1> QED BY <1>1, <1>2 DEF Shmdt

LEMMA NattchStep ==
    ASSUME SegInv, NEW p \in Processes, Nattch(p)
    PROVE  SegInv'
<1>0. /\ pc[p] = "nattch" /\ LocalInv(p) /\ SegTypeOK /\ key[p] \in Keys
      /\ UNCHANGED <<live, att, maker, crashes, failed, start, all, addrs, sized>>
      /\ res[p] \in Segments
  BY MadeFacts DEF SegInv, Nattch, system, LocalInv, Gone, SegTypeOK
<1>1. CASE ~(Exists(res[p]) /\ (force[p] \/ att[res[p]] = {})) /\ Return(p)
  BY <1>0, <1>1, ReturnStep DEF Minds, Exists
<1>2. CASE Goto(p, "rmid") /\ UNCHANGED <<key, res, force>>
  <2>1. /\ UNCHANGED <<live, att, maker, crashes, failed, init, ok, idx, key, res, tables, addrs, sized>>
        /\ Made' = Made
    BY <1>0, <1>2 DEF start, Made
  <2>2. pc' = [pc EXCEPT ![p] = "rmid"] /\ UNCHANGED <<force, all>>
    BY <1>0, <1>2 DEF Goto
  <2>3. SegTypeOK'
    BY <1>0, <2>1, <2>2 DEF SegTypeOK
  <2>4. pc'[p] = "rmid" /\ \A q \in Processes \ {p} : Same(q)
    BY <1>0, <2>1, <2>2 DEF Same, SegTypeOK
  <2>5. LocalInv(p)'
    BY <1>0, <2>1, <2>4 DEF LocalInv, Off, Unset, Known, Gone, OwnSoFar, Own, NameKept, SameOrDead, Starting
  <2>6. OneName' /\ Minded'
    BY <1>0, <2>1, <2>4 DEF SegInv, OneName, Minded, Minds, Same
  <2>7. SystemStep(p)
    BY <1>0, <2>1, SystemSame
  <2> QED BY <2>3, <2>4, <2>5, <2>6, <2>7, StepKeeps
<1> QED BY <1>1, <1>2 DEF Nattch

LEMMA RmidStep ==
    ASSUME SegInv, NEW p \in Processes, Rmid(p)
    PROVE  SegInv'
<1>0. /\ pc[p] = "rmid" /\ LocalInv(p) /\ SegTypeOK /\ key[p] \in Keys
      /\ UNCHANGED <<att, maker, crashes, failed, start, all>> /\ Return(p)
      /\ res[p] \in Made /\ res[p] \in Segments /\ Made' = Made
  BY MadeFacts DEF SegInv, Rmid, LocalInv, Gone, SegTypeOK, Made
<1>1. CASE ~Exists(res[p])
  <2>1. UNCHANGED <<live, addrs, sized>>
    BY <1>1 DEF Rmid
  <2> QED BY <1>0, <1>1, <2>1, ReturnStep DEF Minds, Exists
<1>2. CASE Exists(res[p])
  <2>1. /\ live' = [k \in Keys |-> IF live[k] = res[p] THEN None ELSE live[k]]
        /\ addrs' = [addrs EXCEPT ![p][key[p]] = None]
        /\ sized' = [sized EXCEPT ![p] = sized[p] \ {key[p]}]
        /\ UNCHANGED <<init, ok, idx, tables>>
    BY <1>0, <1>2 DEF Rmid, Set, start
  <2>2. /\ pc' = [pc EXCEPT ![p] = IF all[p] THEN "loop" ELSE "up"]
        /\ key' = [key EXCEPT ![p] = Order[1]] /\ res' = [res EXCEPT ![p] = None]
        /\ force' = [force EXCEPT ![p] = all[p] /\ force[p]]
    BY <1>0 DEF Return, Locals, Goto, Set
  <2>3. SegTypeOK'
    <3>1. /\ live' \in [Keys -> Made \cup {None}]
          /\ addrs' \in [Processes -> [Keys -> Made \cup {None, Null}]]
          /\ sized' \in [Processes -> SUBSET Keys]
      BY <1>0, <2>1 DEF SegTypeOK
    <3>2. /\ key' \in [Processes -> Keys] /\ res' \in [Processes -> Made \cup {None}]
          /\ force' \in [Processes -> BOOLEAN]
      BY <1>0, <2>2, SegFacts DEF SegTypeOK
    <3>3. /\ pc' \in [Processes -> {"off", "get", "stat", "at", "up", "loop",
                                    "shmdt", "nattch", "rmid"}]
          /\ \A q \in Processes : all[q] => pc'[q] \in {"loop", "shmdt", "nattch", "rmid"}
      BY <1>0, <2>2 DEF SegTypeOK
    <3> QED BY <1>0, <2>1, <3>1, <3>2, <3>3 DEF SegTypeOK
  <2>4. pc'[p] \in {"up", "loop"} /\ \A q \in Processes \ {p} : Same(q)
    BY <1>0, <2>1, <2>2 DEF Same, SegTypeOK
  <2>5. /\ \A k \in Keys \ {key[p]} : addrs'[p][k] = addrs[p][k]
        /\ addrs'[p][key[p]] = None /\ sized'[p] = sized[p] \ {key[p]}
        /\ \A k \in Keys : live'[k] = live[k] \/ live'[k] = None
        /\ \A k \in Keys : live'[k] # None => live'[k] = live[k] /\ live[k] # res[p]
    BY <1>0, <2>1 DEF SegTypeOK
  <2>6. None \notin Made /\ None \notin Segments
    BY <1>0, MadeFacts
  <2>7. LocalInv(p)'
    <3>1. Off(p)' /\ Unset(p)' /\ SameOrDead(p)' /\ Gone(p)' /\ OwnSoFar(p)'
      BY <1>0, <2>1, <2>4 DEF LocalInv, Off, Unset, SameOrDead, Gone, OwnSoFar, Own, Starting
    <3>2. Known(p)'
      <4> SUFFICES ASSUME NEW t \in Segments, p \in att[t]
                   PROVE  \E k \in sized'[p] : addrs'[p][k] = t
        BY <1>0 DEF Known
      <4>1. PICK k \in sized[p] : addrs[p][k] = t
        BY <1>0 DEF LocalInv, Known
      <4>2. k # key[p] /\ k \in Keys
        BY <1>0, <4>1 DEF LocalInv, Gone, SegTypeOK
      <4> QED BY <2>5, <4>1, <4>2
    <3>3. NameKept(p)'
      BY <1>0, <2>4, <2>5, <2>6 DEF LocalInv, NameKept
    <3> QED BY <3>1, <3>2, <3>3 DEF LocalInv
  <2>8. OneName'
    BY <2>5 DEF SegInv, OneName
  <2>9. Minded'
    <3> SUFFICES ASSUME crashes = 0, NEW k \in Keys, live'[k] \notin failed' \cup {None}
                 PROVE  \/ att[live[k]] # {}
                        \/ \E q \in Processes :
                              /\ res'[q] = live[k]
                              /\ pc'[q] \in {"nattch", "rmid"} \/ (pc'[q] = "at" /\ init'[q])
      BY <1>0, <2>5 DEF Minded, Minds
    <3>1. att[live[k]] # {} \/ \E q \in Processes : Minds(q, live[k])
      BY <1>0, <2>5 DEF SegInv, Minded
    <3> QED BY <2>4, <2>5, <3>1 DEF Minds, Same
  <2>10. SystemStep(p)
    BY <1>0, <2>5, <2>6 DEF SystemStep, SegTypeOK
  <2> QED BY <2>3, <2>4, <2>7, <2>8, <2>9, <2>10, StepKeeps
<1> QED BY <1>1, <1>2

LEMMA DetachAllStep ==
    ASSUME SegInv, NEW p \in Processes, NEW f \in BOOLEAN, DetachAll(p, f)
    PROVE  SegInv'
<1>1. pc[p] = "up" /\ UNCHANGED <<live, att, maker, crashes, failed, init, ok, addrs, tables, sized>>
  BY DEF DetachAll, system, start
<1>2. SegTypeOK'
  BY <1>1 DEF DetachAll, Goto, Set, start, SegInv, SegTypeOK, Made
<1>3. pc'[p] = "loop" /\ \A q \in Processes \ {p} : Same(q)
  BY DEF DetachAll, Goto, Set, system, start, Same, SegInv, SegTypeOK
<1> QED BY <1>1, <1>2, <1>3, CallEnds DEF Minds

LEMMA LoopStep ==
    ASSUME SegInv, NEW p \in Processes, Loop(p)
    PROVE  SegInv'
<1>0. pc[p] = "loop" /\ force[p] \in BOOLEAN /\ sized[p] \subseteq Keys
  BY DEF Loop, SegInv, SegTypeOK
<1>1. CASE /\ all' = Set(all, p, FALSE) /\ Goto(p, "up") /\ Clear(p)
           /\ UNCHANGED <<system, start, addrs, sized>>
  <2>1. UNCHANGED <<live, att, maker, crashes, failed, init, ok, addrs, tables, sized>>
    BY <1>1 DEF system, start
  <2>2. SegTypeOK'
    BY <1>1, <2>1, SegFacts DEF Goto, Set, Clear, Locals, start, SegInv, SegTypeOK, Made
  <2>3. pc'[p] = "up" /\ \A q \in Processes \ {p} : Same(q)
    BY <1>1 DEF Goto, Set, Clear, Locals, start, Same, SegInv, SegTypeOK
  <2> QED BY <1>0, <2>1, <2>2, <2>3, CallEnds DEF Minds
<1>2. CASE \E k \in sized[p] : LookUp(p, k, force[p])
  BY <1>0, <1>2, LookUpStep
<1> QED BY <1>1, <1>2 DEF Loop

LEMMA GetSizeStep ==
    ASSUME SegInv, NEW p \in Processes, NEW k \in Keys, GetSize(p, k)
    PROVE  SegInv'
<1>1. /\ pc[p] = "up" /\ sized' = [sized EXCEPT ![p] = sized[p] \cup {k}]
      /\ UNCHANGED <<live, att, maker, crashes, failed, pc, init, ok, idx, key, res, addrs, tables, force, all>>
  BY DEF GetSize, system, start, request, Set
<1>2. SegTypeOK'
  BY <1>1 DEF SegInv, SegTypeOK, Made
<1>3. sized[p] \subseteq sized'[p] /\ \A q \in Processes \ {p} : Same(q)
  BY <1>1 DEF Same, SegInv, SegTypeOK
<1> QED BY <1>1, <1>2, <1>3, CallEnds DEF Minds

LEMMA GetAddrStep ==
    ASSUME SegInv, NEW p \in Processes, NEW k \in Keys, GetAddr(p, k)
    PROVE  SegInv'
<1>1. /\ pc[p] = "up" /\ addrs[p][k] = None
      /\ addrs' = [addrs EXCEPT ![p][k] = Null] /\ Made' = Made
      /\ UNCHANGED <<live, att, maker, crashes, failed, pc, init, ok, idx, key, res, sized, tables, force, all>>
  BY DEF GetAddr, system, start, request, Made
<1>0. LocalInv(p) /\ SegTypeOK
  BY DEF SegInv
<1>2. SegTypeOK'
  BY <1>0, <1>1 DEF SegTypeOK
<1>3. \A q \in Processes \ {p} : Same(q)
  BY <1>0, <1>1 DEF Same, SegTypeOK
<1>4. \A l \in Keys : addrs'[p][l] # addrs[p][l] => addrs[p][l] = None /\ addrs'[p][l] = Null
  BY <1>0, <1>1 DEF SegTypeOK
<1>5. None \notin Segments /\ Null \notin Made /\ sized[p] \subseteq Keys
  BY <1>0, MadeFacts DEF SegTypeOK
<1>6. LocalInv(p)'
  <2>1. Off(p)' /\ Unset(p)' /\ Gone(p)' /\ OwnSoFar(p)' /\ SameOrDead(p)'
    BY <1>0, <1>1 DEF LocalInv, Off, Unset, Gone, OwnSoFar, Own, SameOrDead, Starting
  <2>2. Known(p)'
    BY <1>0, <1>1, <1>4, <1>5 DEF LocalInv, Known
  <2>3. NameKept(p)'
    BY <1>0, <1>1, <1>4, <1>5 DEF LocalInv, NameKept
  <2> QED BY <2>1, <2>2, <2>3 DEF LocalInv
<1>7. OneName' /\ Minded'
  BY <1>1 DEF SegInv, OneName, Minded, Minds
<1>8. SystemStep(p)
  BY <1>0, <1>1, SystemSame
<1> QED BY <1>2, <1>3, <1>6, <1>7, <1>8, StepKeeps

\* A process that is gone holds nothing.
LEMMA ForgetStep ==
    ASSUME SegInv, NEW p \in Processes, Forget(p), SegTypeOK', SystemStep(p), Minded',
           \A s \in Segments : p \notin att'[s]
    PROVE  SegInv'
<1>1. \A q \in Processes \ {p} : Same(q)
  BY DEF Forget, Clear, Locals, Goto, Set, Same, SegInv, SegTypeOK
<1>2. /\ pc'[p] = "off" /\ idx'[p] = 1 /\ key'[p] = Order[1] /\ ok'[p] = FALSE
      /\ \A k \in Keys : addrs'[p][k] = None
      /\ UNCHANGED <<live, maker>>
  BY DEF Forget, Clear, Locals, Goto, Set, SegInv, SegTypeOK
<1>3. None \notin Made'
  BY <1>2, MadeFacts DEF SegInv, Made
<1>4. LocalInv(p)'
  <2>1. Off(p)' /\ Unset(p)' /\ Gone(p)' /\ SameOrDead(p)'
    BY <1>2 DEF Off, Unset, Gone, SameOrDead, Starting
  <2>2. Known(p)' /\ OwnSoFar(p)' /\ NameKept(p)'
    BY <1>2, <1>3 DEF Known, OwnSoFar, NameKept, Starting
  <2> QED BY <2>1, <2>2 DEF LocalInv
<1>5. OneName'
  BY <1>2 DEF SegInv, OneName
<1> QED BY <1>1, <1>4, <1>5, StepKeeps

LEMMA ForgetTypes ==
    ASSUME SegInv, NEW p \in Processes, Forget(p), crashes' \in Nat,
           att' \in [Segments -> SUBSET Processes]
    PROVE  SegTypeOK'
<1>1. Made' = Made
  BY DEF Forget, Made
<1>2. /\ addrs' \in [Processes -> [Keys -> Made \cup {None, Null}]]
      /\ tables' \in [Processes -> [Keys -> Made \cup {None}]]
      /\ idx' \in [Processes -> 1..Len(Order)]
      /\ key' \in [Processes -> Keys]
  BY SegFacts DEF Forget, Clear, Locals, Set, SegInv, SegTypeOK
<1> QED BY <1>1, <1>2 DEF Forget, Clear, Locals, Goto, Set, SegInv, SegTypeOK

LEMMA DiscardStep ==
    ASSUME SegInv, NEW p \in Processes, Discard(p)
    PROVE  SegInv'
<1>1. /\ pc[p] = "up" /\ sized[p] = {} /\ Forget(p)
      /\ UNCHANGED <<live, maker, att, crashes, failed>>
  BY DEF Discard, Forget
<1>2. \A s \in Segments : p \notin att[s]
  BY <1>1 DEF SegInv, LocalInv, Known
<1>3. SegTypeOK'
  BY <1>1, ForgetTypes DEF SegInv, SegTypeOK
<1>4. SystemStep(p)
  BY <1>1, SystemSame DEF SegInv
<1>5. \A q \in Processes \ {p} : Same(q)
  BY <1>1 DEF Forget, Clear, Locals, Goto, Set, Same, SegInv, SegTypeOK
<1>6. Minded'
  BY <1>1, <1>5 DEF SegInv, Minded, Minds, Same
<1> QED BY <1>1, <1>2, <1>3, <1>4, <1>6, ForgetStep

LEMMA CrashStep ==
    ASSUME SegInv, NEW p \in Processes, Crash(p)
    PROVE  SegInv'
<1>1. /\ Forget(p) /\ crashes' = crashes + 1 /\ UNCHANGED <<live, maker, failed>>
      /\ att' = [s \in Segments |-> att[s] \ {p}] /\ crashes \in Nat
  BY DEF Crash, Forget, SegInv, SegTypeOK
<1>2. att' \in [Segments -> SUBSET Processes] /\ \A s \in Segments : p \notin att'[s]
  BY <1>1 DEF SegInv, SegTypeOK
<1>3. SegTypeOK'
  BY <1>1, <1>2, ForgetTypes
<1>4. SystemStep(p)
  BY <1>1 DEF SystemStep, SegInv, SegTypeOK
<1>5. Minded'
  BY <1>1 DEF Minded
<1> QED BY <1>1, <1>2, <1>3, <1>4, <1>5, ForgetStep

LEMMA SegStep == SegInv /\ [Next]_vars => SegInv'
<1> SUFFICES ASSUME SegInv, [Next]_vars PROVE SegInv'
  OBVIOUS
<1>1. CASE UNCHANGED vars
  <2>1. UNCHANGED <<live, att, maker, crashes, failed, pc, init, ok, idx, key, res, addrs,
                    sized, tables, force, all>>
    BY <1>1 DEF vars, system, start, request
  <2>2. SegTypeOK'
    <3>1. Made' = Made
      BY <2>1 DEF Made
    <3> QED BY <2>1, <3>1 DEF SegInv, SegTypeOK
  <2>3. \A p \in Processes : LocalInv(p)'
    <3>1. Made' = Made
      BY <2>1 DEF Made
    <3>2. ASSUME NEW p \in Processes PROVE LocalInv(p)'
      <4>1. LocalInv(p)
        BY DEF SegInv
      <4>2. Off(p)' /\ Unset(p)' /\ Known(p)' /\ Gone(p)' /\ SameOrDead(p)'
        BY <4>1, <2>1, <3>1 DEF LocalInv, Off, Unset, Known, Gone, SameOrDead
      <4>3. OwnSoFar(p)' /\ NameKept(p)'
        BY <4>1, <2>1, <3>1 DEF LocalInv, OwnSoFar, Own, NameKept
      <4> QED BY <4>2, <4>3 DEF LocalInv
    <3> QED BY <3>2
  <2>4. OneName'
    BY <2>1 DEF SegInv, OneName
  <2>5. Minded'
    BY <2>1 DEF SegInv, Minded, Minds
  <2> QED BY <2>2, <2>3, <2>4, <2>5 DEF SegInv
<1>2. CASE Next
  <2> PICK p \in Processes :
        \/ \E i \in BOOLEAN : Start(p, i)
        \/ Create(p) \/ Find(p) \/ Stat(p) \/ Attach(p)
        \/ \E k \in Keys, f \in BOOLEAN : Detach(p, k, f)
        \/ \E f \in BOOLEAN : DetachAll(p, f)
        \/ Loop(p) \/ Shmdt(p) \/ Nattch(p) \/ Rmid(p)
        \/ \E k \in Keys : GetSize(p, k) \/ GetAddr(p, k)
        \/ Discard(p) \/ Crash(p)
    BY <1>2 DEF Next
  <2>1. ASSUME NEW i \in BOOLEAN, Start(p, i) PROVE SegInv'
    BY <2>1, StartStep
  <2>2. CASE Create(p) \/ Find(p) \/ Stat(p) \/ Attach(p)
    BY <2>2, CreateStep, FindStep, StatStep, AttachStep
  <2>3. ASSUME NEW k \in Keys, NEW f \in BOOLEAN, Detach(p, k, f) PROVE SegInv'
    BY <2>3, LookUpStep DEF Detach
  <2>4. ASSUME NEW f \in BOOLEAN, DetachAll(p, f) PROVE SegInv'
    BY <2>4, DetachAllStep
  <2>5. CASE Loop(p) \/ Shmdt(p) \/ Nattch(p) \/ Rmid(p)
    BY <2>5, LoopStep, ShmdtStep, NattchStep, RmidStep
  <2>6. ASSUME NEW k \in Keys, GetSize(p, k) \/ GetAddr(p, k) PROVE SegInv'
    BY <2>6, GetSizeStep, GetAddrStep
  <2>7. CASE Discard(p) \/ Crash(p)
    BY <2>7, DiscardStep, CrashStep
  <2> QED BY <2>1, <2>2, <2>3, <2>4, <2>5, <2>6, <2>7
<1> QED BY <1>1, <1>2

LEMMA SegInvariant == Spec => []SegInv
BY InitInv, SegStep, PTL DEF Spec

\* The types of the system and of the tables of every process.
THEOREM SegmentTypes == Spec => []SegTypeOK
<1>1. SegInv => SegTypeOK
  BY DEF SegInv
<1> QED BY <1>1, SegInvariant, PTL

\* No sequence of attaches, detaches, failures and look-ups makes a process
\* lose the address of a segment it is attached to.
THEOREM AttachmentsAreKnown == Spec => []AttachedIsKnown
<1>1. SegInv => AttachedIsKnown
  BY DEF SegInv, SegTypeOK, LocalInv, Known, AttachedIsKnown
<1> QED BY <1>1, SegInvariant, PTL

\* An initializer that came through has made all its segments itself.
THEOREM InitializersStartFresh == Spec => []InitializersAreFresh
<1>1. SegInv => InitializersAreFresh
  BY DEF SegInv, LocalInv, OwnSoFar, Own, InitializersAreFresh
<1> QED BY <1>1, SegInvariant, PTL

\* Without crashes the segments go with the last process that detaches, but those
\* that nobody attached to after their creator failed to.
THEOREM LastOutRemoves == Spec => []LastOneRemoves
<1>1. SegInv => LastOneRemoves
  <2> SUFFICES ASSUME SegInv, crashes = 0,
                      \A p \in Processes : pc[p] \in {"off", "up", "loop"},
                      \A s \in Segments : att[s] = {},
                      NEW k \in Keys, live[k] \notin failed \cup {None}
               PROVE  FALSE
    BY DEF LastOneRemoves
  <2>1. live[k] \in Segments
    BY MadeFacts DEF SegInv, SegTypeOK
  <2> QED BY <2>1 DEF SegInv, Minded, Minds
<1> QED BY <1>1, SegInvariant, PTL
=============================================================================
