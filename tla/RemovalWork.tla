----------------------------- MODULE RemovalWork -----------------------------
(***************************************************************************)
(* Removing keys from a tier (c_experiments/src/node_shm_tiers_and_procs.h): *)
(* del_method leaves a request in the tier's _removal_work queue and wakes *)
(* the removal thread; removal_thread sleeps on _removerAtomicFlag when the *)
(* queue is empty, and otherwise pops requests and runs del_action on each; *)
(* shutdown_threads lowers _removals_running and joins the thread.         *)
(*                                                                         *)
(* The queue is SrswQueue, step by step; its entries are the keys asked to *)
(* be removed.  The application calls del_method from one thread, as the   *)
(* queue demands.                                                          *)
(*                                                                         *)
(* The hash table is the set of keys stored.  As in TierPut, lookups swap  *)
(* the halves of the hash, and Findable is the set of keys they can find;  *)
(* no two keys are taken to be mirrored (Hits of TierPut).                 *)
(* MaxDels bounds the calls of del_method.                                 *)
(***************************************************************************)
EXTENDS SrswQueue

CONSTANTS Findable, MaxDels

ASSUME RemovalAssumption == Findable \subseteq Entries /\ MaxDels \in Nat

VARIABLES
    cpc,             \* del_method: control point of the application's thread
    rmpc, request,   \* removal_runner and removal_thread: control point, `re`
    flag,            \* _removerAtomicFlag
    running,         \* _removals_running
    downpc,          \* shutdown_threads
    stored,          \* keys in the tier's hash table
    freed,           \* the keys whose cells were pushed on the free stack, in order
    accepted, acted, \* history: requests the queue took; requests acted on
    dels             \* calls of del_method so far

tier == <<stored, freed>>
rvars == <<qvars, cpc, rmpc, request, flag, running, downpc, tier, accepted, acted, dels>>

RInit ==
    /\ QInit
    /\ cpc = "idle" /\ rmpc = "start" /\ request = Blank
    /\ flag = FALSE /\ running = FALSE /\ downpc = "up"
    /\ stored = Entries /\ freed = << >>
    /\ accepted = << >> /\ acted = << >>
    /\ dels = 0

-----------------------------------------------------------------------------
\* del_method

\* The request is built, and push entered.
Del(k) ==
    /\ cpc = "idle" /\ dels < MaxDels
    /\ StartPush(k)
    /\ cpc' = "push"
    /\ dels' = dels + 1
    /\ UNCHANGED <<rmpc, request, flag, running, downpc, tier, accepted, acted>>

\* The rest of push, whose result is not looked at.
PushOn ==
    /\ cpc = "push"
    /\ ReloadRead \/ WriteEntry \/ PublishWrite
    /\ cpc' = IF wpc' = "idle" THEN "wake" ELSE "push"
    /\ accepted' = IF wpc = "publish" THEN Append(accepted, arg) ELSE accepted
    /\ UNCHANGED <<rmpc, request, flag, running, downpc, tier, acted, dels>>

\* wakeup_removal
WakeRemover ==
    /\ cpc = "wake"
    /\ flag' = TRUE
    /\ cpc' = "idle"
    /\ UNCHANGED <<qvars, rmpc, request, running, downpc, tier, accepted, acted, dels>>

-----------------------------------------------------------------------------
\* The removal thread

\* removal_runner raises its own running flag ...
StartThread ==
    /\ rmpc = "start"
    /\ running' = TRUE
    /\ rmpc' = "top"
    /\ UNCHANGED <<qvars, cpc, request, flag, downpc, tier, accepted, acted, dels>>

\* ... and calls removal_thread while it is up.
ThreadTop ==
    /\ rmpc = "top"
    /\ rmpc' = IF running THEN "check" ELSE "exited"
    /\ UNCHANGED <<qvars, cpc, request, flag, running, downpc, tier, accepted, acted, dels>>

\* empty() decides whether to sleep.
CheckEmpty ==
    /\ rmpc = "check"
    /\ rmpc' = IF r = w THEN "clear" ELSE "loop"
    /\ UNCHANGED <<qvars, cpc, request, flag, running, downpc, tier, accepted, acted, dels>>

\* wait_for_removal_notification: clear the flag, then wait for it to be set.
ClearFlag ==
    /\ rmpc = "clear"
    /\ flag' = FALSE
    /\ rmpc' = "asleep"
    /\ UNCHANGED <<qvars, cpc, request, running, downpc, tier, accepted, acted, dels>>

Woken ==
    /\ rmpc = "asleep" /\ flag
    /\ rmpc' = "loop"
    /\ UNCHANGED <<qvars, cpc, request, flag, running, downpc, tier, accepted, acted, dels>>

\* The loop goes on while empty() says there is work, whatever `running` says.
LoopFault == r # w /\ running
Loop == r # w

LoopTop ==
    /\ rmpc = "loop"
    /\ rmpc' = IF Loop THEN "pop" ELSE "top"
    /\ UNCHANGED <<qvars, cpc, request, flag, running, downpc, tier, accepted, acted, dels>>

\* pop, and the request it returned, if it returned one
PopOn ==
    /\ rmpc = "pop"
    /\ ReaderStep
    /\ request' = IF rpc = "publish" THEN copy ELSE request
    /\ rmpc' = IF rpc' # "idle" THEN "pop" ELSE IF rpc = "publish" THEN "act" ELSE "loop"
    /\ UNCHANGED <<cpc, flag, running, downpc, tier, accepted, acted, dels>>

\* del_action: a key the lookup finds is blocked (update to UINT32_MAX), its cell
\* pushed on the free stack -- at the address of its data -- and its hash deleted;
\* of any other key nothing is touched.
RemovesFault(k) == k \in Findable
Removes(k) == k \in stored \cap Findable

Act ==
    /\ rmpc = "act"
    /\ IF Removes(request)
       THEN /\ stored' = stored \ {request}
            /\ freed' = Append(freed, request)
       ELSE UNCHANGED tier
    /\ acted' = Append(acted, request)
    /\ request' = Blank
    /\ rmpc' = "loop"
    /\ UNCHANGED <<qvars, cpc, flag, running, downpc, accepted, dels>>

-----------------------------------------------------------------------------
\* shutdown_threads

LowerRunning ==
    /\ downpc = "up"
    /\ running' = FALSE
    /\ downpc' = "joining"
    /\ UNCHANGED <<qvars, cpc, rmpc, request, flag, tier, accepted, acted, dels>>

Join ==
    /\ downpc = "joining" /\ rmpc = "exited"
    /\ downpc' = "down"
    /\ UNCHANGED <<qvars, cpc, rmpc, request, flag, running, tier, accepted, acted, dels>>

Client == PushOn \/ WakeRemover
Remover == \/ StartThread \/ ThreadTop \/ CheckEmpty \/ ClearFlag \/ Woken
           \/ LoopTop \/ PopOn \/ Act
Shutdown == LowerRunning \/ Join

RNext == (\E k \in Entries : Del(k)) \/ Client \/ Remover \/ Shutdown

RSpec == RInit /\ [][RNext]_rvars

\* The threads are scheduled; nothing obliges the application to delete or shut down.
RFairSpec == RSpec /\ WF_rvars(Client) /\ WF_rvars(Remover) /\ WF_rvars(Join)

-----------------------------------------------------------------------------
\* Properties

\* The queue and the threads around it keep their types.
RTypeOK ==
    /\ QTypeOK
    /\ cpc \in {"idle", "push", "wake"}
    /\ rmpc \in {"start", "top", "check", "clear", "asleep", "loop", "pop", "act", "exited"}
    /\ request \in Cells
    /\ flag \in BOOLEAN /\ running \in BOOLEAN
    /\ downpc \in {"up", "joining", "down"}
    /\ stored \subseteq Entries
    /\ accepted \in Seq(Entries) /\ acted \in Seq(Entries)
    /\ dels \in 0 .. MaxDels

\* Every request the queue took is acted on once, in order: what was acted on, the
\* request in the thread's hands and the queue together are what was accepted.
RequestsAccounted ==
    accepted = acted \o (IF rmpc = "act" THEN <<request>> ELSE << >>) \o Contents

\* A key that was not asked for stays, and a cell goes to the free stack when its
\* key leaves the table: not before, and not twice when a key is deleted twice.
OnlyAskedIsRemoved ==
    /\ \A k \in Entries \ stored : \E i \in DOMAIN acted : acted[i] = k
    /\ {freed[i] : i \in DOMAIN freed} = Entries \ stored
    /\ \A i, j \in DOMAIN freed : freed[i] = freed[j] => i = j

\* Once the removal thread is in its loop, whatever the queue has taken is acted on,
\* though shutdown_threads lowers its running flag in the meantime.
LoopActsOnAll ==
    \A n \in 1 .. MaxDels :
        rmpc \in {"loop", "pop", "act"} /\ Len(accepted) >= n ~> Len(acted) >= n

-----------------------------------------------------------------------------
\* The inductive invariant the theorems of RemovalProofs rest on: what is between
\* the indices of the ring, and in the thread's hands, was pushed.
InTransit ==
    /\ Contents \in Seq(Entries)
    /\ rmpc = "act" => request \in Entries
    /\ freed \in Seq(Entries)

RInv == QInv /\ RTypeOK /\ InTransit /\ RequestsAccounted /\ OnlyAskedIsRemoved

-----------------------------------------------------------------------------
\* What a comment of the code says, and the code does not do

\* tiers_and_procs.h:646: shutdown_threads turns off all threads.
ShutdownReturns == downpc = "joining" ~> downpc = "down"
=============================================================================
