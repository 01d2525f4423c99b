------------------------------ MODULE TierPut ------------------------------
(***************************************************************************)
(* The put protocol of tier 0: c_experiments/src/                          *)
(* node_shm_tiers_and_procs.h, put_method (client side) and                *)
(* second_phase_write_handler (the reader thread of the tier).             *)
(*                                                                         *)
(* Every client process owns one Com_element of the shared com buffer: a   *)
(* marker, a hash and an offset.  A put writes the hash, raises the marker *)
(* to CLEARED_FOR_ALLOC, wakes the reader and spins (a bounded number of   *)
(* times) until a reader has put an offset in the element and raised the   *)
(* marker to CLEARED_FOR_COPY; it then copies its data to that offset and  *)
(* clears the marker.  A reader collects a batch of raised markers, looks  *)
(* the hashes up, takes free slots for the new ones, answers each message  *)
(* and stores the hash in the hash table.                                  *)
(*                                                                         *)
(* Abstractions.  A message body is the key it was put under.  The free    *)
(* stack is a sequence popped in one step.  The hash table is a set of     *)
(* <<key, slot>> pairs.  A 64 bit hash is [key, stamped]: the selector     *)
(* bits of its bucket half are set, or not.  Every lookup of the repository *)
(* hands the two halves of the hash to HMap_interface::get in swapped      *)
(* order, while the store does not: it finds a key whose two halves agree, *)
(* and for another key what is stored under its mirror image, if anything. *)
(* What the lookup of a key may hit is the constant Hits.                  *)
(*                                                                         *)
(* An access to shared memory is a step, but for three: the hash and the   *)
(* offset of an element are written together (by the put before it submits *)
(* the element, by the reader before it releases it); the lookups of a     *)
(* batch are one step; and what an update stamps in the timeout table      *)
(* (timestamp_update) is left out, but not its waiting for that table.     *)
(*                                                                         *)
(* Bounds: MaxPuts caps the calls of put_method, MaxTimeouts the calls     *)
(* that run out of MAX_WAIT_LOOPS.                                         *)
(***************************************************************************)
EXTENDS Integers, Sequences, SequencesExt, FiniteSets

CONSTANTS
    NProcs,        \* processes with a com element in the tier
    Servers,       \* threads running second_phase_write_handler for the tier
    Keys,          \* the hashes clients put
    Hits,          \* the keys whose slots a lookup of a key may return (see above)
    Tiers,         \* tiers from_time may pick for the client's copy
    NSlots,        \* storage cells of the tier
    NoKey,         \* the content of a slot or element nothing was written to
    Restamp,       \* may a caller put a hash it got back (already stamped)?
    MaxPuts, MaxTimeouts

ASSUME PutAssumption ==
    /\ NProcs \in Nat \ {0}
    /\ NSlots \in Nat \ {0}
    /\ Hits \in [Keys -> SUBSET Keys] /\ NoKey \notin Keys
    /\ 0 \in Tiers /\ Tiers \subseteq Nat
    /\ Restamp \in BOOLEAN
    /\ MaxPuts \in Nat /\ MaxTimeouts \in Nat

Procs == 0 .. NProcs - 1
Slots == 1 .. NSlots
NoOffset == 0              \* offset_offset[0] of a new put; the control words of the region
MaxOffset == NSlots + 1    \* UINT32_MAX
Offsets == 0 .. NSlots + 1

\* COM_BUFFER_STATE; FAILED_ALLOCATOR is left out: nothing calls indicate_error
Markers == {"CLEAR_FOR_WRITE", "CLEARED_FOR_ALLOC", "LOCKED_FOR_ALLOC", "CLEARED_FOR_COPY"}
Hashes == [key : Keys \cup {NoKey}, stamped : BOOLEAN]
NoHash == [key |-> NoKey, stamped |-> FALSE]
NoRequest == [hash |-> NoHash, updating |-> FALSE, tier |-> 0]

VARIABLES
    marker, hash, offset,       \* the com elements: Com_element, one per process
    cpc, req, got, back,        \* put_method: control point and locals of each client
    spc, scan, ready, batch,    \* second_phase_write_handler: locals of each reader
    pos, asked, enough, taken, storing,
    flag,                       \* _readerAtomicFlag[0]
    free, requested,            \* free stack and _memory_requested of the tier's LRU_cache
    table, aged,                \* hash table entries; offsets in _timeout_table
    locks,                      \* are the locks of _timeout_table held for good?
    data, wild,                 \* slot contents; did a copy land outside a granted slot?
    issued,                     \* keys whose stamped hash a put has handed back
    puts, timeouts              \* bounded counts of calls and of expired waits

com     == <<marker, hash, offset>>
client  == <<cpc, req, got, back>>
server  == <<spc, scan, ready, batch, pos, asked, enough, taken, storing>>
lru     == <<free, requested, table, aged, locks>>
store   == <<data, wild, issued>>
vars    == <<com, client, server, flag, lru, store, puts, timeouts>>

Init ==
    /\ marker = [p \in Procs |-> "CLEAR_FOR_WRITE"]
    /\ hash = [p \in Procs |-> NoHash]
    /\ offset = [p \in Procs |-> NoOffset]
    /\ cpc = [p \in Procs |-> "idle"]
    /\ req = [p \in Procs |-> NoRequest]
    /\ got = [p \in Procs |-> NoOffset]
    /\ back = [p \in Procs |-> NoHash]
    /\ spc = [s \in Servers |-> "scan"]
    /\ scan = [s \in Servers |-> 0]
    /\ ready = [s \in Servers |-> <<>>]
    /\ batch = [s \in Servers |-> <<>>]
    /\ pos = [s \in Servers |-> 1]
    /\ asked = [s \in Servers |-> FALSE]
    /\ enough = [s \in Servers |-> FALSE]
    /\ taken = [s \in Servers |-> <<>>]
    /\ storing = [s \in Servers |-> NoKey]
    /\ flag = FALSE
    /\ free = [i \in 1 .. NSlots |-> i]
    /\ requested = 0
    /\ table = {} /\ aged = {} /\ locks = FALSE
    /\ data = [o \in Slots |-> NoKey]
    /\ wild = FALSE
    /\ issued = {}
    /\ puts = 0 /\ timeouts = 0

-----------------------------------------------------------------------------
\* put_method, one client process p.  (An operator named ...Fault is a mutation of
\* the one below it; no specification uses it.)

\* await_write_offset: the loads that end the wait, and those that let it time out
MayCopy(m) == m = "CLEARED_FOR_COPY"
UnansweredFault(m) == m = "CLEARED_FOR_ALLOC"
Unanswered(m) == m # "CLEARED_FOR_COPY"

\* The caller enters put_method: wait_to_write finds the element free.  The tier
\* from_time picks is where the data will be copied.
StartPut(p) ==
    /\ cpc[p] = "idle" /\ puts < MaxPuts
    /\ marker[p] = "CLEAR_FOR_WRITE"
    /\ \E k \in Keys, st \in BOOLEAN, up \in BOOLEAN, t \in Tiers :
        /\ st => Restamp /\ k \in issued
        /\ req' = [req EXCEPT ![p] = [hash |-> [key |-> k, stamped |-> st],
                                      updating |-> up, tier |-> t]]
    /\ cpc' = [cpc EXCEPT ![p] = "write"]
    /\ puts' = puts + 1
    /\ UNCHANGED <<com, got, back, server, flag, lru, store, timeouts>>

\* wait_to_write runs out of loops: put_method returns -1 and touches nothing.
BusyPut(p) ==
    /\ cpc[p] = "idle" /\ puts < MaxPuts
    /\ marker[p] # "CLEAR_FOR_WRITE"
    /\ puts' = puts + 1
    /\ UNCHANGED <<com, client, server, flag, lru, store, timeouts>>

WriteRequest(p) ==
    /\ cpc[p] = "write"
    /\ hash' = [hash EXCEPT ![p] = req[p].hash]
    /\ offset' = [offset EXCEPT ![p] = IF req[p].updating THEN MaxOffset ELSE NoOffset]
    /\ cpc' = [cpc EXCEPT ![p] = "submit"]
    /\ UNCHANGED <<marker, req, got, back, server, flag, lru, store, puts, timeouts>>

\* cleared_for_alloc
Submit(p) ==
    /\ cpc[p] = "submit"
    /\ marker' = [marker EXCEPT ![p] = "CLEARED_FOR_ALLOC"]
    /\ cpc' = [cpc EXCEPT ![p] = "wake"]
    /\ UNCHANGED <<hash, offset, req, got, back, server, flag, lru, store, puts, timeouts>>

\* wake_up_write_handlers
WakeReader(p) ==
    /\ cpc[p] = "wake"
    /\ flag' = TRUE
    /\ cpc' = [cpc EXCEPT ![p] = "await"]
    /\ UNCHANGED <<com, req, got, back, server, lru, store, puts, timeouts>>

\* await_write_offset succeeds; the offset is read.
Granted(p) ==
    /\ cpc[p] = "await" /\ MayCopy(marker[p])
    /\ got' = [got EXCEPT ![p] = offset[p]]
    /\ cpc' = [cpc EXCEPT ![p] =
                 IF offset[p] = MaxOffset /\ ~req[p].updating THEN "clear" ELSE "copy"]
    /\ UNCHANGED <<com, req, back, server, flag, lru, store, puts, timeouts>>

\* await_write_offset runs out of MAX_WAIT_LOOPS, whatever the reader is doing.
TimedOut(p) ==
    /\ cpc[p] = "await" /\ Unanswered(marker[p])
    /\ timeouts < MaxTimeouts
    /\ cpc' = [cpc EXCEPT ![p] = "clear"]
    /\ timeouts' = timeouts + 1
    /\ UNCHANGED <<com, req, got, back, server, flag, lru, store, puts>>

\* memcpy to data_location(write_offset) of the tier from_time picked: a slot
\* when the offset is one of that tier, some other part of a region if not.
CopyData(p) ==
    /\ cpc[p] = "copy"
    /\ \/ /\ got[p] \in Slots /\ req[p].tier = 0
          /\ data' = [data EXCEPT ![got[p]] = req[p].hash.key]
          /\ wild' = wild
       \/ /\ ~(got[p] \in Slots /\ req[p].tier = 0)
          /\ wild' = TRUE
          /\ data' = data
    /\ back' = [back EXCEPT ![p] = hash[p]]
    /\ cpc' = [cpc EXCEPT ![p] = "clear"]
    /\ UNCHANGED <<com, req, got, server, flag, lru, issued, puts, timeouts>>

\* clear_for_write and return; a put that copied hands the hash it read from the
\* element back to its caller.
Return(p) ==
    /\ cpc[p] = "clear"
    /\ marker' = [marker EXCEPT ![p] = "CLEAR_FOR_WRITE"]
    /\ issued' = IF back[p].stamped THEN issued \cup {back[p].key} ELSE issued
    /\ cpc' = [cpc EXCEPT ![p] = "idle"]
    /\ req' = [req EXCEPT ![p] = NoRequest]
    /\ got' = [got EXCEPT ![p] = NoOffset]
    /\ back' = [back EXCEPT ![p] = NoHash]
    /\ UNCHANGED <<hash, offset, server, flag, lru, data, wild, puts, timeouts>>

ClientStep(p) ==
    \/ WriteRequest(p) \/ Submit(p) \/ WakeReader(p)
    \/ Granted(p) \/ TimedOut(p) \/ CopyData(p) \/ Return(p)

-----------------------------------------------------------------------------
\* second_phase_write_handler, one reader thread s

\* HMap_interface::get with swapped halves: the slots the lookup may return.
LookupFault(h) == IF h.stamped /\ Hits[h.key] # {}
                  THEN {o \in Slots : \E k \in Keys : <<k, o>> \in table} ELSE {}
Lookup(h) == IF h.stamped
             THEN {o \in Slots : \E k \in Hits[h.key] : <<k, o>> \in table} ELSE {}

LastProcFault == NProcs
LastProc == NProcs - 1

\* second_phase_waiter reads the next marker, and after the last one goes on
\* with what is ready, or goes to sleep.
Scan(s) ==
    /\ spc[s] = "scan"
    /\ LET p == scan[s]
           seen == IF marker[p] = "CLEARED_FOR_ALLOC" THEN Append(ready[s], p) ELSE ready[s]
       IN /\ ready' = [ready EXCEPT ![s] = seen]
          /\ IF p < LastProc
             THEN scan' = [scan EXCEPT ![s] = p + 1] /\ spc' = spc
             ELSE /\ scan' = [scan EXCEPT ![s] = 0]
                  /\ spc' = [spc EXCEPT ![s] = IF seen = <<>> THEN "sleep" ELSE "claim"]
    /\ UNCHANGED <<com, client, batch, pos, asked, enough, taken, storing, flag, lru, store, puts, timeouts>>

\* wait_for_data_present_notification: clear the flag, then wait for it to be set.
ClearFlag(s) ==
    /\ spc[s] = "sleep"
    /\ flag' = FALSE
    /\ spc' = [spc EXCEPT ![s] = "wait"]
    /\ UNCHANGED <<com, client, scan, ready, batch, pos, asked, enough, taken, storing, lru, store, puts, timeouts>>

Awake(s) ==
    /\ spc[s] = "wait" /\ flag
    /\ spc' = [spc EXCEPT ![s] = "scan"]
    /\ UNCHANGED <<com, client, scan, ready, batch, pos, asked, enough, taken, storing, flag, lru, store, puts, timeouts>>

\* The claim loop looks at the marker of the next ready process again ...
CheckReady(s) ==
    /\ spc[s] = "claim" /\ ready[s] # <<>>
    /\ IF marker[Head(ready[s])] = "CLEARED_FOR_ALLOC"
       THEN spc' = [spc EXCEPT ![s] = "lock"] /\ ready' = ready
       ELSE spc' = spc /\ ready' = [ready EXCEPT ![s] = Tail(@)]
    /\ UNCHANGED <<com, client, scan, batch, pos, asked, enough, taken, storing, flag, lru, store, puts, timeouts>>

\* ... and claim_for_alloc locks it, from whatever state it is in by now.
Lock(s) ==
    /\ spc[s] = "lock"
    /\ marker' = [marker EXCEPT ![Head(ready[s])] = "LOCKED_FOR_ALLOC"]
    /\ batch' = [batch EXCEPT ![s] = Append(@, [proc |-> Head(ready[s]), found |-> NoOffset])]
    /\ ready' = [ready EXCEPT ![s] = Tail(@)]
    /\ spc' = [spc EXCEPT ![s] = "claim"]
    /\ UNCHANGED <<hash, offset, client, scan, pos, asked, enough, taken, storing, flag, lru, store, puts, timeouts>>

\* The handler returns; its thread calls it again.
Done(s) ==
    /\ spc' = [spc EXCEPT ![s] = "scan"]
    /\ batch' = [batch EXCEPT ![s] = <<>>]
    /\ pos' = [pos EXCEPT ![s] = 1]
    /\ asked' = [asked EXCEPT ![s] = FALSE]
    /\ enough' = [enough EXCEPT ![s] = FALSE]
    /\ taken' = [taken EXCEPT ![s] = <<>>]

NothingClaimed(s) ==
    /\ spc[s] = "claim" /\ ready[s] = <<>> /\ batch[s] = <<>>
    /\ Done(s)
    /\ UNCHANGED <<com, client, scan, ready, storing, flag, lru, store, puts, timeouts>>

\* filter_existence_check: a known hash gets its slot, a new one NoOffset.
Filter(s) ==
    /\ spc[s] = "claim" /\ ready[s] = <<>> /\ batch[s] # <<>>
    /\ \E f \in [DOMAIN batch[s] -> Slots \cup {NoOffset}] :
        /\ \A i \in DOMAIN batch[s] :
              LET hits == Lookup(hash[batch[s][i].proc])
              IN f[i] \in IF hits = {} THEN {NoOffset} ELSE hits
        /\ batch' = [batch EXCEPT ![s] = [i \in DOMAIN @ |-> [@[i] EXCEPT !.found = f[i]]]]
    /\ spc' = [spc EXCEPT ![s] = "update"]
    /\ UNCHANGED <<com, client, scan, ready, pos, asked, enough, taken, storing, flag, lru, store, puts, timeouts>>

Known(s) == {i \in DOMAIN batch[s] : batch[s][i].found # NoOffset}
Wanted(s) == Cardinality(DOMAIN batch[s] \ Known(s))      \* additional_locations

\* The message at hand, the slot it gets, and the end of the loop over the batch
MessageProc(s) == batch[s][pos[s]].proc
AllottedFault(s) == taken[s][1]
Allotted(s) == taken[s][pos[s]]
BatchDoneFault(s) == pos[s] >= Len(batch[s])
BatchDone(s) == pos[s] > Len(batch[s])

\* Updates are answered first, in batch order: the known offset ...
OfferKnown(s) ==
    /\ spc[s] = "update"
    /\ \E i \in Known(s) :
        /\ i >= pos[s] /\ \A j \in Known(s) : j >= pos[s] => i <= j
        /\ offset' = [offset EXCEPT ![batch[s][i].proc] = batch[s][i].found]
        /\ pos' = [pos EXCEPT ![s] = i]
    /\ spc' = [spc EXCEPT ![s] = "known"]
    /\ UNCHANGED <<marker, hash, client, scan, ready, batch, asked, enough, taken, storing, flag, lru, store, puts, timeouts>>

\* ... and clear_for_copy.
ReleaseKnown(s) ==
    /\ spc[s] = "known"
    /\ marker' = [marker EXCEPT ![MessageProc(s)] = "CLEARED_FOR_COPY"]
    /\ pos' = [pos EXCEPT ![s] = @ + 1]
    /\ spc' = [spc EXCEPT ![s] = "update"]
    /\ UNCHANGED <<hash, offset, client, scan, ready, batch, asked, enough, taken, storing, flag, lru, store, puts, timeouts>>

\* All updates answered: timestamp_update waits for the locks of the timeout table.
\* Then done, or memory for the new ones is needed.
UpdatesDone(s) ==
    /\ spc[s] = "update"
    /\ \A i \in Known(s) : i < pos[s]
    /\ Known(s) # {} => ~locks

AfterUpdates(s) ==
    /\ UpdatesDone(s)
    /\ IF Wanted(s) = 0
       THEN Done(s)
       ELSE /\ spc' = [spc EXCEPT ![s] = "memory"]
            /\ pos' = [pos EXCEPT ![s] = 1]
            /\ UNCHANGED <<batch, asked, enough, taken>>
    /\ UNCHANGED <<com, client, scan, ready, storing, flag, lru, store, puts, timeouts>>

\* update_entries follows the pointers to the shared counters of the timeout table,
\* which nothing sets.  What then happens is undefined: it goes well, as above, or the
\* reader is taken to stop.
WildUpdate(s) ==
    /\ UpdatesDone(s) /\ Known(s) # {}
    /\ spc' = [spc EXCEPT ![s] = "wild"]
    /\ UNCHANGED <<com, client, scan, ready, batch, pos, asked, enough, taken, storing, flag, lru, store, puts, timeouts>>

\* check_and_maybe_request_free_mem, called until it says yes.  The first call adds
\* what is wanted to _memory_requested, after the loads that decide.  In the last
\* tier run_evictions only raises the evictor's flag: the loop spins.
MoreFault(s) == Wanted(s)
More(s) == IF asked[s] THEN 0 ELSE Wanted(s)

CheckMemory(s) ==
    /\ spc[s] = "memory"
    /\ enough' = [enough EXCEPT ![s] = Len(free) >= requested + More(s)]
    /\ spc' = [spc EXCEPT ![s] = "request"]
    /\ UNCHANGED <<com, client, scan, ready, batch, pos, asked, taken, storing, flag, lru, store, puts, timeouts>>

RequestMemory(s) ==
    /\ spc[s] = "request"
    /\ requested' = requested + More(s)
    /\ asked' = [asked EXCEPT ![s] = TRUE]
    /\ spc' = [spc EXCEPT ![s] = IF enough[s] THEN "take" ELSE "memory"]
    /\ UNCHANGED <<com, client, scan, ready, batch, pos, enough, taken, storing, flag, free, table, aged, locks, store, puts, timeouts>>

\* claim_free_mem: pop_number, then free_mem_claim_satisfied.
PoppedFault(n) == SubSeq(free, n, Len(free))
Popped(n) == SubSeq(free, n + 1, Len(free))

TakeFree(s) ==
    /\ spc[s] = "take" /\ Len(free) >= Wanted(s)
    /\ taken' = [taken EXCEPT ![s] = SubSeq(free, 1, Wanted(s))]
    /\ free' = Popped(Wanted(s))
    /\ requested' = IF requested <= Wanted(s) THEN 0 ELSE requested - Wanted(s)
    /\ spc' = [spc EXCEPT ![s] = "allot"]
    /\ UNCHANGED <<com, client, scan, ready, batch, pos, asked, enough, storing, flag, table, aged, locks, store, puts, timeouts>>

\* pop_number runs into the end of the stack: what it popped is lost and the
\* handler returns, leaving the markers of its batch as they are.
TakeFails(s) ==
    /\ spc[s] = "take" /\ Len(free) < Wanted(s)
    /\ free' = <<>>
    /\ Done(s)
    /\ UNCHANGED <<com, client, scan, ready, storing, flag, requested, table, aged, locks, store, puts, timeouts>>

\* One message of the batch: load its hash and lock its bucket ...
Allot(s) ==
    /\ spc[s] = "allot" /\ ~BatchDone(s) /\ pos[s] \notin Known(s)
    /\ ~hash[MessageProc(s)].stamped
    /\ storing' = [storing EXCEPT ![s] = hash[MessageProc(s)].key]
    /\ spc' = [spc EXCEPT ![s] = "answer"]
    /\ UNCHANGED <<com, client, scan, ready, batch, pos, asked, enough, taken, flag, lru, store, puts, timeouts>>

\* ... which get_augmented_hash_locking refuses for a hash that is stamped already:
\* then nothing answers the message.
Refuse(s) ==
    /\ spc[s] = "allot" /\ ~BatchDone(s) /\ pos[s] \notin Known(s)
    /\ hash[MessageProc(s)].stamped
    /\ pos' = [pos EXCEPT ![s] = @ + 1]
    /\ UNCHANGED <<com, client, spc, scan, ready, batch, asked, enough, taken, storing, flag, lru, store, puts, timeouts>>

\* The loop walks all of `messages`.  The entry of an update holds an offset in
\* the low half of its pointer by now: it is not null and is dereferenced.  What
\* then happens is undefined; the reader is taken to stop.
WildMessage(s) ==
    /\ spc[s] = "allot" /\ ~BatchDone(s) /\ pos[s] \in Known(s)
    /\ spc' = [spc EXCEPT ![s] = "wild"]
    /\ UNCHANGED <<com, client, scan, ready, batch, pos, asked, enough, taken, storing, flag, lru, store, puts, timeouts>>

\* Write the offset and the stamped hash, as it was loaded, ...
AugmentedFault(k) == [key |-> k, stamped |-> FALSE]
Augmented(k) == [key |-> k, stamped |-> TRUE]

Answer(s) ==
    /\ spc[s] = "answer"
    /\ offset' = [offset EXCEPT ![MessageProc(s)] = Allotted(s)]
    /\ hash' = [hash EXCEPT ![MessageProc(s)] = Augmented(storing[s])]
    /\ spc' = [spc EXCEPT ![s] = "release"]
    /\ UNCHANGED <<marker, client, scan, ready, batch, pos, asked, enough, taken, storing, flag, lru, store, puts, timeouts>>

\* ... clear_for_copy: the client may go on ...
Release(s) ==
    /\ spc[s] = "release"
    /\ marker' = [marker EXCEPT ![MessageProc(s)] = "CLEARED_FOR_COPY"]
    /\ spc' = [spc EXCEPT ![s] = "store"]
    /\ UNCHANGED <<hash, offset, client, scan, ready, batch, pos, asked, enough, taken, storing, flag, lru, store, puts, timeouts>>

\* ... before the pair is in the hash table (store_in_hash_unlocking).
StoreInHash(s) ==
    /\ spc[s] = "store"
    /\ table' = table \cup {<<storing[s], Allotted(s)>>}
    /\ storing' = [storing EXCEPT ![s] = NoKey]
    /\ pos' = [pos EXCEPT ![s] = @ + 1]
    /\ spc' = [spc EXCEPT ![s] = "allot"]
    /\ UNCHANGED <<com, client, scan, ready, batch, asked, enough, taken, flag, free, requested, aged, locks, store, puts, timeouts>>

\* attach_to_lru_list: add_entries takes the locks of the timeout table; it returns
\* with both held when the pointers to the shared counters, which nothing sets, are null.
Attach(s) ==
    /\ spc[s] = "allot" /\ BatchDone(s) /\ ~locks
    /\ \/ aged' = aged \cup ToSet(taken[s]) /\ locks' = locks
       \/ locks' = TRUE /\ aged' = aged
    /\ Done(s)
    /\ UNCHANGED <<com, client, scan, ready, storing, flag, free, requested, table, store, puts, timeouts>>

ServerStep(s) ==
    \/ Scan(s) \/ ClearFlag(s) \/ Awake(s)
    \/ CheckReady(s) \/ Lock(s) \/ NothingClaimed(s)
    \/ Filter(s) \/ OfferKnown(s) \/ ReleaseKnown(s) \/ AfterUpdates(s) \/ WildUpdate(s)
    \/ CheckMemory(s) \/ RequestMemory(s) \/ TakeFree(s) \/ TakeFails(s)
    \/ Allot(s) \/ Refuse(s) \/ WildMessage(s) \/ Answer(s) \/ Release(s) \/ StoreInHash(s) \/ Attach(s)

Next ==
    \/ \E p \in Procs : StartPut(p) \/ BusyPut(p) \/ ClientStep(p)
    \/ \E s \in Servers : ServerStep(s)

Spec == Init /\ [][Next]_vars

\* The threads are scheduled: every client inside put_method and every reader
\* keeps taking its steps.  Nothing obliges a client to start a put.
Fairness == /\ \A p \in Procs : WF_vars(ClientStep(p))
            /\ \A s \in Servers : WF_vars(ServerStep(s))
FairSpec == Spec /\ Fairness

-----------------------------------------------------------------------------
\* Properties

ClientPoints == {"idle", "write", "submit", "wake", "await", "copy", "clear"}
ServerPoints == {"scan", "sleep", "wait", "claim", "lock", "update", "known", "memory", "request",
                 "take", "allot", "answer", "release", "store", "wild"}

\* The variables keep their types: markers are COM_BUFFER_STATE values, offsets
\* are a slot, 0 or UINT32_MAX, a batch names processes and the slots found.
TypeOK ==
    /\ marker \in [Procs -> Markers]
    /\ hash \in [Procs -> Hashes]
    /\ offset \in [Procs -> Offsets]
    /\ cpc \in [Procs -> ClientPoints]
    /\ req \in [Procs -> [hash : Hashes, updating : BOOLEAN, tier : Tiers]]
    /\ got \in [Procs -> Offsets]
    /\ back \in [Procs -> Hashes]
    /\ spc \in [Servers -> ServerPoints]
    /\ scan \in [Servers -> Procs]
    /\ ready \in [Servers -> Seq(Procs)]
    /\ batch \in [Servers -> Seq([proc : Procs, found : Slots \cup {NoOffset}])]
    /\ pos \in [Servers -> Nat \ {0}]
    /\ asked \in [Servers -> BOOLEAN] /\ enough \in [Servers -> BOOLEAN]
    /\ taken \in [Servers -> Seq(Slots)]
    /\ storing \in [Servers -> Keys \cup {NoKey}]
    /\ flag \in BOOLEAN
    /\ free \in Seq(Slots) /\ requested \in Nat
    /\ table \subseteq Keys \X Slots /\ aged \subseteq Slots /\ locks \in BOOLEAN
    /\ data \in [Slots -> Keys \cup {NoKey}] /\ wild \in BOOLEAN
    /\ issued \subseteq Keys
    /\ puts \in 0 .. MaxPuts /\ timeouts \in 0 .. MaxTimeouts

\* The handler has one holder for each slot: free, in the hands of one reader, or
\* aging in the tier; no slot under a hash is free and no slot is under two hashes.
SlotsAccounted ==
    /\ IsInjective(free)
    /\ \A s \in Servers :
        /\ IsInjective(taken[s])
        /\ ToSet(taken[s]) \cap (ToSet(free) \cup aged) = {}
        /\ \A t \in Servers \ {s} : ToSet(taken[s]) \cap ToSet(taken[t]) = {}
    /\ aged \cap ToSet(free) = {}
    /\ \A e \in table : e[2] \notin ToSet(free)
    /\ \A e, f \in table : e[2] = f[2] => e = f

\* When await_write_offset lets a client go, the element holds the answer to the
\* put it is in: a slot of the tier, and the hash it asked for, stamped.
GrantIsForTheRequest ==
    \A p \in Procs :
        marker[p] = "CLEARED_FOR_COPY" /\ cpc[p] \in {"submit", "wake", "await"}
        => /\ offset[p] \in Slots
           /\ hash[p] = [key |-> req[p].hash.key, stamped |-> TRUE]

\* Two clients are sent to the same slot only to write the same key.
GrantsAgree ==
    \A p, q \in Procs :
        (cpc[p] = "copy" /\ cpc[q] = "copy" /\ got[p] = got[q])
        => req[p].hash.key = req[q].hash.key

\* A get never returns what was put under another key: the slot stored under a
\* hash holds that key's data, or none before the first copy is done.
NeverAnothersData == \A e \in table : data[e[2]] \in {e[1], NoKey}

\* put_method copies data only into the slot it was given.
CopiesStayInside == ~wild

\* Once a put has handed a hash back, the data is in a slot, and the slot is in
\* the hash table, or a reader is about to store it there.
ReturnedIsStored ==
    \A k \in issued : \E o \in Slots :
        /\ data[o] = k
        /\ \/ <<k, o>> \in table
           \/ \E s \in Servers : storing[s] = k /\ taken[s][pos[s]] = o

\* _memory_requested is what the readers looking for memory want, once each.
RequestedIsWanted ==
    \A s \in Servers : Servers = {s} =>
        requested = IF asked[s] /\ spc[s] \in {"memory", "request", "take"} THEN Wanted(s) ELSE 0

\* The marker only moves round its cycle: client, reader, reader, client.  (With
\* clients that never give up; see the runs with MaxTimeouts > 0.)
MarkerCycle ==
    [][\A p \in Procs : marker'[p] # marker[p] =>
        <<marker[p], marker'[p]>> \in
            {<<"CLEAR_FOR_WRITE", "CLEARED_FOR_ALLOC">>, <<"CLEARED_FOR_ALLOC", "LOCKED_FOR_ALLOC">>,
             <<"LOCKED_FOR_ALLOC", "CLEARED_FOR_COPY">>, <<"CLEARED_FOR_COPY", "CLEAR_FOR_WRITE">>}]_vars

\* A call of put_method returns, whatever the readers do.
PutReturns == \A p \in Procs : cpc[p] # "idle" ~> cpc[p] = "idle"

\* A message a reader has locked is answered, though the reader may stop for good at
\* the locks of the timeout table after its batch.
LockedIsAnswered ==
    \A p \in Procs : marker[p] = "LOCKED_FOR_ALLOC" ~> marker[p] = "CLEARED_FOR_COPY"

-----------------------------------------------------------------------------
\* The inductive invariants the theorems of TierPutProofs rest on

\* A message is written before it is submitted, and stays written while a reader
\* holds it; only a written hash is ever stamped or stored.
Written(p) == hash[p].key \in Keys
RequestWritten(p) ==
    /\ cpc[p] = "write" => req[p].hash.key \in Keys
    /\ cpc[p] = "submit" \/ marker[p] = "CLEARED_FOR_ALLOC" => Written(p)
    /\ hash[p].stamped => Written(p)
    /\ back[p].stamped => back[p].key \in Keys
HeldWritten(s) ==
    /\ \A i \in DOMAIN ready[s] : Written(ready[s][i])
    /\ \A i \in DOMAIN batch[s] : Written(batch[s][i].proc)
    /\ spc[s] \in {"answer", "release", "store"} => storing[s] \in Keys

\* The loop over the batch and the list of taken slots run in step: as many slots
\* were taken as the batch has new messages, and no update lies behind the loop.
Allotting == {"allot", "answer", "release", "store"}
InStep(s) ==
    /\ spc[s] = "lock" => ready[s] # <<>>
    /\ spc[s] \in {"memory", "request", "take"} => pos[s] = 1
    /\ spc[s] \in Allotting => Len(taken[s]) = Wanted(s) /\ \A i \in Known(s) : i >= pos[s]
    /\ spc[s] \in Allotting \ {"allot"} => pos[s] \in DOMAIN batch[s] \ Known(s)

TypeInv == /\ TypeOK
           /\ \A p \in Procs : RequestWritten(p)
           /\ \A s \in Servers : HeldWritten(s) /\ InStep(s)

\* Slots are held from TakeFree to Attach, and one the loop has not reached is
\* under no hash.
SlotsFresh ==
    \A s \in Servers :
        /\ taken[s] # <<>> => spc[s] \in Allotting \cup {"wild"}
        /\ \A i \in DOMAIN taken[s] : i >= pos[s] => \A e \in table : e[2] # taken[s][i]

SlotInv == TypeInv /\ SlotsAccounted /\ SlotsFresh

\* With one reader, waits that never expire, copies in this tier, and no key stored
\* that mirrors another, an answer goes to the put that asked; PutAnswersProofs rests
\* on the rest of this section.
NoMirrored == \A k \in Keys : Hits[k] \subseteq {k}
Patient == (\A s, t \in Servers : s = t) /\ MaxTimeouts = 0 /\ Tiers = {0} /\ NoMirrored

\* Where a client is in put_method says where its marker can be, and its element
\* holds the hash it wrote until the reader stamps it.
InCycle(p) ==
    /\ cpc[p] \in {"idle", "write", "submit"} <=> marker[p] = "CLEAR_FOR_WRITE"
    /\ cpc[p] \in {"copy", "clear"} => marker[p] = "CLEARED_FOR_COPY"
    /\ cpc[p] \in {"submit", "wake", "await", "copy"} => hash[p].key = req[p].hash.key

\* The messages of its batch that a reader still has to answer
Pending(s) ==
    {i \in DOMAIN batch[s] :
        \/ spc[s] \in {"claim", "lock"}
        \/ spc[s] \in {"update", "known"} /\ (i \in Known(s) => i >= pos[s])
        \/ spc[s] \in {"memory", "request", "take"} /\ i \notin Known(s)
        \/ spc[s] \in {"allot", "answer", "release"} /\ i \notin Known(s) /\ i >= pos[s]
        \/ spc[s] = "store" /\ i \notin Known(s) /\ i > pos[s]}

\* The reader sees each process once, and its messages stay locked until answered.
Holds(s) ==
    /\ spc[s] \in {"scan", "sleep", "wait"} => batch[s] = <<>>
    /\ spc[s] \notin {"scan", "claim", "lock"} => ready[s] = <<>>
    /\ \A i \in DOMAIN ready[s] : marker[ready[s][i]] = "CLEARED_FOR_ALLOC"
    /\ IsInjective(ready[s])
    /\ spc[s] = "scan" => \A i \in DOMAIN ready[s] : ready[s][i] < scan[s]
    /\ \A i, j \in DOMAIN batch[s] : batch[s][i].proc = batch[s][j].proc => i = j
    /\ \A i \in Pending(s) : marker[batch[s][i].proc] = "LOCKED_FOR_ALLOC"

\* Slot o is under key k in the hash table, or about to be.
Under(k, o) ==
    \/ <<k, o>> \in table
    \/ \E s \in Servers : spc[s] = "store" /\ storing[s] = k /\ Allotted(s) = o

\* What the reader is about to answer belongs to the hash of the message.
Answering(s) ==
    /\ spc[s] \in {"update", "known"} =>
          \A i \in Known(s) : i >= pos[s] =>
              LET h == hash[batch[s][i].proc] IN h.stamped /\ <<h.key, batch[s][i].found>> \in table
    /\ spc[s] = "known" => pos[s] \in Known(s) /\ offset[MessageProc(s)] = batch[s][pos[s]].found
    /\ spc[s] \in {"answer", "release"} => storing[s] = hash[MessageProc(s)].key
    /\ spc[s] = "release" => offset[MessageProc(s)] = Allotted(s) /\ hash[MessageProc(s)].stamped

\* What a client was answered, and copies to, is a slot under its own hash.
Grant(p) ==
    /\ marker[p] = "CLEARED_FOR_COPY" /\ cpc[p] \in {"wake", "await"} =>
          offset[p] \in Slots /\ hash[p].stamped /\ Under(req[p].hash.key, offset[p])
    /\ cpc[p] = "copy" => got[p] \in Slots /\ Under(req[p].hash.key, got[p])

\* Data lies in slots that are under its key, and what a put hands back was copied.
Copied ==
    /\ \A o \in Slots : data[o] # NoKey => Under(data[o], o)
    /\ \A p \in Procs : back[p].key # NoKey => \E o \in Slots : data[o] = back[p].key
    /\ \A k \in issued : \E o \in Slots : data[o] = k
    /\ ~wild

\* _memory_requested while the reader looks for memory, and what its check found
MemoryCounted(s) ==
    /\ requested = IF asked[s] /\ spc[s] \in {"memory", "request", "take"} THEN Wanted(s) ELSE 0
    /\ asked[s] => spc[s] \in {"memory", "request", "take", "wild"} \cup Allotting
    /\ spc[s] = "request" /\ enough[s] => Len(free) >= Wanted(s)
    /\ spc[s] = "take" => asked[s] /\ Len(free) >= Wanted(s)

CycleInv == (\A p \in Procs : InCycle(p)) /\ (\A s \in Servers : Holds(s))
AnswerInv == (\A s \in Servers : Answering(s)) /\ (\A p \in Procs : Grant(p)) /\ Copied
MemoryInv == \A s \in Servers : MemoryCounted(s)

-----------------------------------------------------------------------------
\* What comments of the code say, and the code does not do

\* tiers_and_procs.h:997: the put wakes a reader that happens to be sleeping.
SubmittedIsClaimed ==
    \A p \in Procs : marker[p] = "CLEARED_FOR_ALLOC" ~> marker[p] # "CLEARED_FOR_ALLOC"

\* atomic_proc_rw_state.h:31: a reader that picks the task up blocks the others
\* from this spot.
ClaimedByOne ==
    \A s, t \in Servers : \A i \in DOMAIN batch[s], j \in DOMAIN batch[t] :
        batch[s][i].proc = batch[t][j].proc => s = t

\* tiers_and_procs.h:813: the position of an answered update is cleared, so the
\* loop over the messages passes it by.
NoWildMessage ==
    \A s \in Servers : ~(spc[s] = "allot" /\ ~BatchDone(s) /\ pos[s] \in Known(s))

\* tiers_and_procs.h:933: when there is no memory the waiting processes are
\* notified, so a locked message is always in some reader's batch.
LockedIsHeld ==
    \A p \in Procs : marker[p] = "LOCKED_FOR_ALLOC" =>
        \E s \in Servers : \/ spc[s] = "lock" /\ Head(ready[s]) = p
                           \/ \E i \in DOMAIN batch[s] : batch[s][i].proc = p
=============================================================================
