--------------------------- MODULE SharedSegments ---------------------------
(***************************************************************************)
(* The System V segments the processes share, and what each process keeps  *)
(* about them (SharedSegments and SharedSegmentsTForm).  One process       *)
(* creates the segments of a list of keys, the others attach to them; each *)
(* key is looked up, attached and put in the tables of the process.  A     *)
(* detach looks the key up again, detaches, and removes the segment when   *)
(* the system counts nobody attached, or when it is told to.  One action   *)
(* is one system call with what the process does before the next one.  A   *)
(* process may crash: the system detaches it and keeps the segments.       *)
(* shmget of a new segment and shmat may fail at any time (ENOSPC, EINVAL, *)
(* ENOMEM).                                                                *)
(*                                                                         *)
(* The system is external: a segment is numbered in the order of creation, *)
(* its number stands for its address as well, and it lives on without its  *)
(* key while somebody is attached.                                         *)
(***************************************************************************)
EXTENDS Naturals, Sequences

CONSTANTS Processes,
          Order,        \* the keys, in the order region_intialization_ops takes them
          MaxSegments,  \* bound: segments created
          MaxCrashes    \* bound: crashes

Keys == {Order[i] : i \in 1..Len(Order)}

\* No segment has the key, or no entry in a map.
None == 0

\* The entry operator[] makes for a key that is not in the map.
Null == MaxSegments + 1

Segments == 1..MaxSegments

\* The keys of a configuration differ from each other.
ASSUME OrderAssumption ==
    /\ Order \in Seq(Nat) /\ Len(Order) > 0
    /\ \A i, j \in 1..Len(Order) : Order[i] = Order[j] => i = j

ASSUME BoundsAssumption == MaxSegments \in Nat /\ MaxCrashes \in Nat

VARIABLES
    live,       \* system: the segment a key names
    att,        \* system: who is attached to a segment
    maker,      \* system: who created each segment, in order
    crashes,
    failed,     \* history: what its creator failed to attach, nobody else did either
    pc,
    init,       \* am_initializer
    ok,         \* region_intialization_ops gave 0
    idx,        \* the key of the list region_intialization_ops is at
    key,        \* the key being attached or detached
    res,        \* the segment shmget gave
    addrs,      \* _ids_to_seg_addrs
    sized,      \* the keys of _ids_to_seg_sizes
    tables,     \* _com_buffer, _seg_to_lrus and _seg_to_hh_tables
    force,      \* forceDestroy
    all         \* the detach is one of detach_all

system == <<live, att, maker, crashes, failed>>
start == <<init, ok, idx, tables>>
request == <<key, res, force, all>>
vars == <<system, pc, start, request, addrs, sized>>

Init ==
    /\ live = [k \in Keys |-> None]
    /\ att = [s \in Segments |-> {}]
    /\ maker = << >>
    /\ crashes = 0
    /\ failed = {}
    /\ pc = [p \in Processes |-> "off"]
    /\ init = [p \in Processes |-> FALSE]
    /\ ok = [p \in Processes |-> FALSE]
    /\ idx = [p \in Processes |-> 1]
    /\ key = [p \in Processes |-> Order[1]]
    /\ res = [p \in Processes |-> None]
    /\ addrs = [p \in Processes |-> [k \in Keys |-> None]]
    /\ sized = [p \in Processes |-> {}]
    /\ tables = [p \in Processes |-> [k \in Keys |-> None]]
    /\ force = [p \in Processes |-> FALSE]
    /\ all = [p \in Processes |-> FALSE]

Goto(p, l) == pc' = [pc EXCEPT ![p] = l]
Set(f, p, v) == [f EXCEPT ![p] = v]

\* The local variables of a call end with it.
Locals(p, k, s, f) ==
    /\ key' = Set(key, p, k)
    /\ res' = Set(res, p, s)
    /\ force' = Set(force, p, f)
Clear(p) == Locals(p, Order[1], None, FALSE)

\* A segment is there while a key names it or somebody is attached.
Exists(s) == s \in Segments /\ (att[s] # {} \/ \E k \in Keys : live[k] = s)

\* A new manager: it knows of no segment.
Start(p, i) ==
    /\ pc[p] = "off"
    /\ Goto(p, "get")
    /\ init' = Set(init, p, i)
    /\ UNCHANGED <<system, ok, idx, tables, request, addrs, sized>>

\* region_intialization_ops gives an error and keeps what it has so far.
Fail(p) ==
    /\ Goto(p, "up")
    /\ idx' = Set(idx, p, 1)
    /\ Clear(p)
    /\ UNCHANGED <<init, ok, tables>>

CreateFault(p) ==
    /\ pc[p] = "get" /\ init[p]
    /\ LET s == IF live[key[p]] = None THEN Len(maker) + 1 ELSE live[key[p]] IN
       /\ Len(maker) < MaxSegments
       /\ live' = Set(live, key[p], s)
       /\ maker' = IF live[key[p]] = None THEN Append(maker, p) ELSE maker
       /\ res' = Set(res, p, s)
       /\ sized' = Set(sized, p, sized[p] \cup {key[p]})
       /\ Goto(p, "at")
       /\ UNCHANGED <<att, crashes, failed, start, key, force, all, addrs>>

\* shmget with IPC_CREAT and IPC_EXCL.  It fails when the key has a segment, and for
\* the system's own reasons.
Create(p) ==
    /\ pc[p] = "get" /\ init[p]
    /\ \/ /\ Fail(p)
          /\ UNCHANGED <<system, all, addrs, sized>>
       \/ /\ live[key[p]] = None
          /\ Len(maker) < MaxSegments
          /\ live' = Set(live, key[p], Len(maker) + 1)
          /\ maker' = Append(maker, p)
          /\ res' = Set(res, p, Len(maker) + 1)
          /\ sized' = Set(sized, p, sized[p] \cup {key[p]})
          /\ Goto(p, "at")
          /\ UNCHANGED <<att, crashes, failed, start, key, force, all, addrs>>

\* shmget of a process that attaches.
Find(p) ==
    /\ pc[p] = "get" /\ ~init[p]
    /\ \/ /\ live[key[p]] = None
          /\ Fail(p)
       \/ /\ live[key[p]] # None
          /\ res' = Set(res, p, live[key[p]])
          /\ Goto(p, "stat")
          /\ UNCHANGED <<start, key, force>>
    /\ UNCHANGED <<system, all, addrs, sized>>

\* shmctl(IPC_STAT) for the size.
Stat(p) ==
    /\ pc[p] = "stat"
    /\ \/ /\ ~Exists(res[p])
          /\ Fail(p)
          /\ UNCHANGED sized
       \/ /\ Exists(res[p])
          /\ sized' = Set(sized, p, sized[p] \cup {key[p]})
          /\ Goto(p, "at")
          /\ UNCHANGED <<start, key, res, force>>
    /\ UNCHANGED <<system, all, addrs>>

\* History: when its creator's shmat fails, a segment nobody is attached to is left.
Stranded(p) == IF init[p] /\ Exists(res[p]) /\ att[res[p]] = {}
               THEN failed \cup {res[p]} ELSE failed

\* shmat, and the entries of the segment in the tables of the process.  It fails when
\* the segment is gone, and for the system's own reasons; the key keeps its segment.
Attach(p) ==
    /\ pc[p] = "at"
    /\ \/ /\ Fail(p)
          /\ failed' = Stranded(p)
          /\ UNCHANGED <<live, att, maker, crashes, all, addrs>>
       \/ /\ Exists(res[p])
          /\ failed' = failed \ {res[p]}
          /\ att' = [att EXCEPT ![res[p]] = @ \cup {p}]
          /\ addrs' = [addrs EXCEPT ![p][key[p]] = res[p]]
          /\ tables' = [tables EXCEPT ![p][key[p]] = res[p]]
          /\ IF idx[p] < Len(Order)
             THEN /\ idx' = Set(idx, p, idx[p] + 1)
                  /\ Locals(p, Order[idx[p] + 1], None, FALSE)
                  /\ Goto(p, "get")
                  /\ UNCHANGED ok
             ELSE /\ Goto(p, "up")
                  /\ ok' = Set(ok, p, TRUE)
                  /\ idx' = Set(idx, p, 1)
                  /\ Clear(p)
          /\ UNCHANGED <<live, maker, crashes, init, all>>
    /\ UNCHANGED sized

\* A call ends: the next turn of detach_all, or the caller.
Return(p) ==
    /\ Goto(p, IF all[p] THEN "loop" ELSE "up")
    /\ Locals(p, Order[1], None, all[p] /\ force[p])

LookUpFault(p, k, f) ==
    /\ live[k] # None
    /\ Locals(p, k, live[k], f)
    /\ addrs' = [addrs EXCEPT ![p][k] = Null]
    /\ Goto(p, "shmdt")
    /\ UNCHANGED <<system, start, all, sized>>

\* key_to_id.  operator[] then leaves an empty entry for a key that has none.
LookUp(p, k, f) ==
    /\ \/ /\ live[k] = None
          /\ Return(p)
          /\ UNCHANGED addrs
       \/ /\ live[k] # None
          /\ Locals(p, k, live[k], f)
          /\ addrs' = [addrs EXCEPT ![p][k] = IF @ = None THEN Null ELSE @]
          /\ Goto(p, "shmdt")
    /\ UNCHANGED <<system, start, all, sized>>

Detach(p, k, f) == pc[p] = "up" /\ LookUp(p, k, f)

DetachAll(p, f) ==
    /\ pc[p] = "up"
    /\ all' = Set(all, p, TRUE)
    /\ force' = Set(force, p, f)
    /\ Goto(p, "loop")
    /\ UNCHANGED <<system, start, key, res, addrs, sized>>

\* The head of the loop of detach_all: the first key there is a size of.
Loop(p) ==
    /\ pc[p] = "loop"
    /\ \/ /\ sized[p] = {}
          /\ all' = Set(all, p, FALSE)
          /\ Goto(p, "up")
          /\ Clear(p)
          /\ UNCHANGED <<system, start, addrs, sized>>
       \/ \E k \in sized[p] :
             /\ \A other \in sized[p] : k <= other
             /\ LookUp(p, k, force[p])

Shmdt(p) ==
    /\ pc[p] = "shmdt"
    /\ LET s == addrs[p][key[p]] IN
       \/ /\ s \in Segments /\ p \in att[s]
          /\ att' = [att EXCEPT ![s] = @ \ {p}]
          /\ Goto(p, "nattch")
          /\ UNCHANGED <<key, res, force>>
       \/ /\ s \in Segments => p \notin att[s]
          /\ Return(p)
          /\ UNCHANGED att
    /\ UNCHANGED <<live, maker, crashes, failed, start, all, addrs, sized>>

NattchFault(p) ==
    /\ pc[p] = "nattch"
    /\ IF Exists(res[p]) /\ force[p]
       THEN Goto(p, "rmid") /\ UNCHANGED <<key, res, force>>
       ELSE Return(p)
    /\ UNCHANGED <<system, start, all, addrs, sized>>

\* shmctl(IPC_STAT): is anybody attached?
Nattch(p) ==
    /\ pc[p] = "nattch"
    /\ IF Exists(res[p]) /\ (force[p] \/ att[res[p]] = {})
       THEN Goto(p, "rmid") /\ UNCHANGED <<key, res, force>>
       ELSE Return(p)
    /\ UNCHANGED <<system, start, all, addrs, sized>>

\* shmctl(IPC_RMID): the key is free again, and the process forgets it.  The
\* tables keep it: _application_removals is not virtual.
Rmid(p) ==
    /\ pc[p] = "rmid"
    /\ IF Exists(res[p])
       THEN /\ live' = [k \in Keys |-> IF live[k] = res[p] THEN None ELSE live[k]]
            /\ addrs' = [addrs EXCEPT ![p][key[p]] = None]
            /\ sized' = Set(sized, p, sized[p] \ {key[p]})
       ELSE UNCHANGED <<live, addrs, sized>>
    /\ Return(p)
    /\ UNCHANGED <<att, maker, crashes, failed, start, all>>

\* get_size: operator[] leaves an entry whether or not there is a segment.
GetSize(p, k) ==
    /\ pc[p] = "up"
    /\ sized' = Set(sized, p, sized[p] \cup {k})
    /\ UNCHANGED <<system, pc, start, request, addrs>>

\* get_addr: so does it.
GetAddr(p, k) ==
    /\ pc[p] = "up"
    /\ addrs[p][k] = None
    /\ addrs' = [addrs EXCEPT ![p][k] = Null]
    /\ UNCHANGED <<system, pc, start, request, sized>>

\* What a process knows of goes with it.
Forget(p) ==
    /\ Goto(p, "off")
    /\ ok' = Set(ok, p, FALSE)
    /\ all' = Set(all, p, FALSE)
    /\ addrs' = Set(addrs, p, [k \in Keys |-> None])
    /\ sized' = Set(sized, p, {})
    /\ tables' = Set(tables, p, [k \in Keys |-> None])
    /\ init' = Set(init, p, FALSE)
    /\ idx' = Set(idx, p, 1)
    /\ Clear(p)
    /\ UNCHANGED <<live, maker, failed>>

\* The manager is discarded after detach_all has emptied it.
Discard(p) ==
    /\ pc[p] = "up" /\ sized[p] = {}
    /\ Forget(p)
    /\ UNCHANGED <<att, crashes>>

Crash(p) ==
    /\ pc[p] # "off"
    /\ crashes < MaxCrashes
    /\ crashes' = crashes + 1
    /\ att' = [s \in Segments |-> att[s] \ {p}]
    /\ Forget(p)

Next ==
    \E p \in Processes :
        \/ \E i \in BOOLEAN : Start(p, i)
        \/ Create(p) \/ Find(p) \/ Stat(p) \/ Attach(p)
        \/ \E k \in Keys, f \in BOOLEAN : Detach(p, k, f)
        \/ \E f \in BOOLEAN : DetachAll(p, f)
        \/ Loop(p) \/ Shmdt(p) \/ Nattch(p) \/ Rmid(p)
        \/ \E k \in Keys : GetSize(p, k) \/ GetAddr(p, k)
        \/ Discard(p) \/ Crash(p)

Spec == Init /\ [][Next]_vars

-----------------------------------------------------------------------------

\* The segments there have been.
Made == 1..Len(maker)

SegTypeOK ==
    /\ live \in [Keys -> Made \cup {None}]
    /\ att \in [Segments -> SUBSET Processes]
    /\ maker \in Seq(Processes) /\ Len(maker) <= MaxSegments
    /\ crashes \in Nat /\ failed \subseteq Made
    /\ pc \in [Processes -> {"off", "get", "stat", "at", "up", "loop",
                             "shmdt", "nattch", "rmid"}]
    /\ init \in [Processes -> BOOLEAN] /\ ok \in [Processes -> BOOLEAN]
    /\ idx \in [Processes -> 1..Len(Order)]
    /\ key \in [Processes -> Keys]
    /\ res \in [Processes -> Made \cup {None}]
    /\ addrs \in [Processes -> [Keys -> Made \cup {None, Null}]]
    /\ tables \in [Processes -> [Keys -> Made \cup {None}]]
    /\ sized \in [Processes -> SUBSET Keys]
    /\ force \in [Processes -> BOOLEAN] /\ all \in [Processes -> BOOLEAN]
    /\ \A p \in Processes :
          all[p] => pc[p] \in {"loop", "shmdt", "nattch", "rmid"}

\* The last one out removes the segment (_detach_op): when no process has
\* crashed, none is in the middle of a call and nobody is attached to
\* anything, a key names a segment only when its creator's shmat failed and
\* nobody attached to it later - although the detach, the count and the
\* removal are three calls, and the key is looked up before any of them.
LastOneRemoves ==
    /\ crashes = 0
    /\ \A p \in Processes : pc[p] \in {"off", "up", "loop"}
    /\ \A s \in Segments : att[s] = {}
    => \A k \in Keys : live[k] \in failed \cup {None}

\* An initializer whose region_intialization_ops gave 0 works on segments it
\* created itself: what a crash or another initializer left behind is
\* refused, never initialized a second time.
InitializersAreFresh ==
    \A p \in Processes :
        ok[p] /\ init[p] => \A k \in Keys : maker[tables[p][k]] = p

\* A process knows the address of every segment it is attached to: no
\* sequence of calls loses what shmdt needs.  detach itself gives up before shmdt
\* when another process has removed the key.
AttachedIsKnown ==
    \A p \in Processes, s \in Segments :
        p \in att[s] => \E k \in Keys : addrs[p][k] = s

=============================================================================
