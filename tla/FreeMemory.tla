----------------------------- MODULE FreeMemory -----------------------------
(***************************************************************************)
(* The free cells of a tier: the lock-free stack of                        *)
(* c_experiments/src/atomic_stack.h, with the count of free cells, the     *)
(* count of cells asked for and the flag of the evictor.  The tier's       *)
(* reader and the evictor of the tier above claim cells from it            *)
(* (LRU_cache::claim_free_mem); the removal thread, the evictor and the    *)
(* reader in its own evictions return them (return_to_free_mem).           *)
(*                                                                         *)
(* Every access to shared memory is a step, and a step of any thread may   *)
(* come between two of another.  A team says which threads claim and which *)
(* return cells; Init picks one.  The counts are 32 bits wide in the code  *)
(* and wrap at Word here.                                                  *)
(*                                                                         *)
(* gone, stale and cut are history: the code has nothing like them, and no *)
(* step depends on them.                                                   *)
(***************************************************************************)
EXTENDS Integers, FiniteSets, FiniteSetsExt, Sequences

CONSTANTS
    Threads,
    Teams,          \* records [claim, return] of two sets of threads
    NCells,         \* cells of the region, _max_free_local
    Reserve,        \* _reserve: below it the evictor is notified
    MaxBatch,       \* largest number of cells of one claim
    MaxClaims,      \* bound on the claims of a behaviour
    Word            \* the counts wrap here

ASSUME FreeMemoryAssumption ==
    /\ IsFiniteSet(Threads)
    /\ Teams \subseteq [claim : SUBSET Threads, return : SUBSET Threads]
    /\ NCells \in Nat \ {0} /\ Reserve \in Nat
    /\ MaxBatch \in Nat \ {0} /\ MaxClaims \in Nat
    /\ Word \in Nat /\ Word > NCells + MaxBatch

VARIABLES
    team,
    next,           \* _next of each cell
    head,           \* _ctrl_free->_next
    count,          \* _count_free
    requested,      \* _memory_requested
    evictor,        \* _reserve_evictor
    held,           \* the cells in use
    lost,           \* the cells a failed claim had popped, or a full stack refused
    pc, op,         \* control point and local variables of each thread
    claims,
    gone,           \* the threads that cells were popped under: Overtaken
    stale,          \* one of them led the head to a next of before
    cut             \* a push whose swap had failed went through

stack == <<next, head, count>>
cells == <<held, lost>>
history == <<gone, stale, cut>>
vars == <<team, stack, requested, evictor, cells, pc, op, claims, history>>

Cells == 1..NCells
END == 0            \* UINT32_MAX

Wrap(x) == IF x < 0 THEN x + Word ELSE IF x < Word THEN x ELSE x - Word

\* The locals of the reader (want, add), of pop_number (n, hdr, nxt, got), of
\* reduce_free_count (fc, store) and of the push (cell, hdr, fc).
NoOp == [n |-> 0, want |-> 0, add |-> FALSE, hdr |-> END, nxt |-> END, got |-> {},
         fc |-> 0, store |-> 0, cell |-> END]

\* setup_region_free_list
Init ==
    /\ team \in Teams
    /\ next = [c \in Cells |-> IF c = NCells THEN END ELSE c + 1]
    /\ head = 1
    /\ count = NCells
    /\ requested = 0
    /\ evictor = FALSE
    /\ held = {} /\ lost = {}
    /\ pc = [t \in Threads |-> "idle"]
    /\ op = [t \in Threads |-> NoOp]
    /\ claims = 0
    /\ gone = {} /\ stale = FALSE /\ cut = FALSE

Pushing == {"pushhead", "link", "pushswap", "increment", "cap", "uncount"}

Goto(t, label) == pc' = [pc EXCEPT ![t] = label]
Set(t, rec) == op' = [op EXCEPT ![t] = rec]

\* The threads for which the pop of a cell matters: claims that have read it as the
\* head, and pushes, whose next leads to the whole stack there was.
Overtaken(c) == {t \in Threads : op[t].hdr = c \/ pc[t] \in {"link", "pushswap"}}

------------------------------------------------------------------------------
(* The reader of a tier asks for n cells, and evicts until there are enough. *)

Request(t, n) ==
    /\ t \in team.claim
    /\ pc[t] = "idle"
    /\ claims < MaxClaims
    /\ claims' = claims + 1
    /\ Set(t, [NoOp EXCEPT !.n = n, !.want = n, !.add = TRUE])
    /\ Goto(t, "ask")
    /\ UNCHANGED <<team, stack, requested, evictor, cells, history>>

\* The evictor of the tier above claims what it moves, and asks for nothing.
ClaimUnasked(t, n) ==
    /\ t \in team.claim
    /\ pc[t] = "idle"
    /\ claims < MaxClaims
    /\ claims' = claims + 1
    /\ Set(t, [NoOp EXCEPT !.n = n, !.want = n])
    /\ Goto(t, "head")
    /\ UNCHANGED <<team, stack, requested, evictor, cells, history>>

\* check_and_maybe_request_free_mem: the free count, then the count asked for, to
\* which the first round adds its own; with fewer free than asked for it evicts.
AskFree(t) ==
    /\ pc[t] = "ask"
    /\ Set(t, [op[t] EXCEPT !.fc = count])
    /\ Goto(t, "total")
    /\ UNCHANGED <<team, stack, requested, evictor, cells, claims, history>>

AskTotal(t) ==
    LET total == IF op[t].add THEN Wrap(requested + op[t].want) ELSE requested IN
    /\ pc[t] = "total"
    /\ Set(t, [op[t] EXCEPT !.store = total])
    /\ Goto(t, IF op[t].add THEN "add" ELSE IF op[t].fc < total THEN "evict" ELSE "head")
    /\ UNCHANGED <<team, stack, requested, evictor, cells, claims, history>>

AddRequest(t) ==
    /\ pc[t] = "add"
    /\ requested' = Wrap(requested + op[t].want)
    /\ Set(t, [op[t] EXCEPT !.add = FALSE])
    /\ Goto(t, IF op[t].fc < op[t].store THEN "evict" ELSE "head")
    /\ UNCHANGED <<team, stack, evictor, cells, claims, history>>

\* run_evictions notifies the evictor when there is no tier to move cells to; with
\* one, it returns cells (ReturnCell).  Then the reader looks again.
Evict(t) ==
    /\ pc[t] = "evict"
    /\ \E label \in {"ask", "notify"} : Goto(t, label)
    /\ UNCHANGED <<team, stack, requested, evictor, cells, op, claims, history>>

------------------------------------------------------------------------------
(* claim_free_mem.                                                          *)

\* pop_number: the head, ...
LoadHead(t) ==
    /\ pc[t] = "head"
    /\ Set(t, IF head = END THEN NoOp ELSE [op[t] EXCEPT !.hdr = head])
    /\ Goto(t, IF head = END THEN "idle" ELSE "count")
    /\ gone' = gone \ {t}
    /\ UNCHANGED <<team, stack, requested, evictor, cells, claims, stale, cut>>

\* ... the count, which is not compared since _backout_overflow is false, ...
LoadCount(t) ==
    /\ pc[t] = "count"
    /\ Set(t, [op[t] EXCEPT !.fc = count])
    /\ Goto(t, "reduce")
    /\ UNCHANGED <<team, stack, requested, evictor, cells, claims, history>>

\* ... which reduce_free_count lowers before anything is popped.  The top of
\* its outer loop:
Reduce(t) ==
    /\ pc[t] = "reduce"
    /\ IF op[t].fc = 0
       THEN Goto(t, "read") /\ UNCHANGED op
       ELSE /\ Goto(t, "swapcount")
            /\ LET n == op[t].want fc == op[t].fc
               IN  Set(t, [op[t] EXCEPT !.store = IF fc < n THEN 0 ELSE fc - n])
    /\ UNCHANGED <<team, stack, requested, evictor, cells, claims, history>>

\* and its swap.  After a success the old count is still in fc, so that the
\* outer loop goes round again; it ends when a failed swap brings the value
\* that was to be stored.
SwapCount(t) ==
    /\ pc[t] = "swapcount"
    /\ IF count = op[t].fc
       THEN /\ count' = op[t].store
            /\ Goto(t, IF op[t].store = op[t].fc THEN "read" ELSE "reduce")
            /\ UNCHANGED op
       ELSE /\ Set(t, [op[t] EXCEPT !.fc = count])
            /\ Goto(t, IF op[t].store = count THEN "read" ELSE "swapcount")
            /\ UNCHANGED count
    /\ UNCHANGED <<team, next, head, requested, evictor, cells, claims, history>>

\* The loop that pops: read the next of the head, ...
Fails(t) == op[t].hdr = END

ReadNextFault(t) ==
    /\ pc[t] = "read"
    /\ ~Fails(t)
    /\ Set(t, [op[t] EXCEPT !.nxt = op[t].hdr])
    /\ Goto(t, "swap")
    /\ UNCHANGED <<team, stack, requested, evictor, cells, claims, history>>

ReadOnceFault(t) ==
    /\ pc[t] = "read"
    /\ ~Fails(t)
    /\ Set(t, [op[t] EXCEPT !.nxt = IF @ = END THEN next[op[t].hdr] ELSE @])
    /\ Goto(t, "swap")
    /\ UNCHANGED <<team, stack, requested, evictor, cells, claims, history>>

ReadNext(t) ==
    /\ pc[t] = "read"
    /\ ~Fails(t)
    /\ Set(t, [op[t] EXCEPT !.nxt = next[op[t].hdr]])
    /\ Goto(t, "swap")
    /\ UNCHANGED <<team, stack, requested, evictor, cells, claims, history>>

\* ... give up when there is none (what was popped so far stays popped), ...
PopFails(t) ==
    /\ pc[t] = "read"
    /\ Fails(t)
    /\ lost' = lost \cup op[t].got
    /\ Set(t, NoOp)
    /\ Goto(t, "idle")
    /\ UNCHANGED <<team, stack, requested, evictor, held, claims, history>>

\* ... and swap the head, for what next was when it was read.  A failed swap brings
\* the new head.
SwapHeadFault(t) ==
    /\ pc[t] = "swap"
    /\ IF head = op[t].hdr
       THEN /\ head' = op[t].nxt
            /\ Set(t, [op[t] EXCEPT !.got = @ \cup {op[t].hdr}, !.n = @ - 1])
            /\ Goto(t, IF op[t].n = 1 THEN "reserve" ELSE "read")
            /\ gone' = gone \cup Overtaken(op[t].hdr)
            /\ stale' = (stale \/ t \in gone)
       ELSE Goto(t, "read") /\ UNCHANGED <<op, head, gone, stale>>
    /\ UNCHANGED <<team, next, count, requested, evictor, cells, claims, cut>>

HandOutFault(t) ==
    /\ pc[t] = "swap"
    /\ IF head = op[t].hdr
       THEN /\ head' = op[t].nxt
            /\ held' = held \cup {op[t].hdr}
            /\ Set(t, [op[t] EXCEPT !.n = @ - 1])
            /\ Goto(t, IF op[t].n = 1 THEN "reserve" ELSE "read")
            /\ gone' = gone \cup Overtaken(op[t].hdr)
            /\ stale' = (stale \/ t \in gone)
       ELSE /\ Set(t, [op[t] EXCEPT !.hdr = head])
            /\ Goto(t, "read")
            /\ gone' = gone \ {t}
            /\ UNCHANGED <<head, held, stale>>
    /\ UNCHANGED <<team, next, count, requested, evictor, lost, claims, cut>>

SwapHead(t) ==
    /\ pc[t] = "swap"
    /\ IF head = op[t].hdr
       THEN /\ head' = op[t].nxt
            /\ Set(t, [op[t] EXCEPT !.got = @ \cup {op[t].hdr}, !.n = @ - 1])
            /\ Goto(t, IF op[t].n = 1 THEN "reserve" ELSE "read")
            /\ gone' = gone \cup Overtaken(op[t].hdr)
            /\ stale' = (stale \/ t \in gone)
       ELSE /\ Set(t, [op[t] EXCEPT !.hdr = head])
            /\ Goto(t, "read")
            /\ gone' = gone \ {t}
            /\ UNCHANGED <<head, stale>>
    /\ UNCHANGED <<team, next, count, requested, evictor, cells, claims, cut>>

\* check_count_free_against_reserve
CheckReserve(t) ==
    /\ pc[t] = "reserve"
    /\ Goto(t, IF count < Reserve THEN "notify" ELSE "load")
    /\ UNCHANGED <<team, stack, requested, evictor, cells, op, claims, history>>

\* notify_evictor repeats test_and_set until the flag was set before; run_evictions
\* and claim_free_mem call it.
NotifyEvictor(t) ==
    /\ pc[t] = "notify"
    /\ evictor' = TRUE
    /\ Goto(t, IF ~evictor THEN "notify" ELSE IF op[t].got = {} THEN "ask" ELSE "load")
    /\ UNCHANGED <<team, stack, requested, cells, op, claims, history>>

\* free_mem_claim_satisfied: a load, then a store or a subtraction.
ClaimSatisfied(t) ==
    /\ pc[t] = "load"
    /\ Goto(t, IF requested <= op[t].want THEN "clear" ELSE "subtract")
    /\ UNCHANGED <<team, stack, requested, evictor, cells, op, claims, history>>

Claimed(t) ==
    /\ pc[t] \in {"clear", "subtract"}
    /\ requested' = IF pc[t] = "clear" THEN 0 ELSE Wrap(requested - op[t].want)
    /\ held' = held \cup op[t].got
    /\ Set(t, NoOp)
    /\ Goto(t, "idle")
    /\ UNCHANGED <<team, stack, evictor, lost, claims, history>>

------------------------------------------------------------------------------
(* return_to_free_mem, _atomic_stack_push.                                  *)

\* full(): the cell is dropped.
Full == count = NCells

\* A reader that evicts goes on with its claim.
Home(t) == IF op[t].n = 0 THEN "idle" ELSE "evict"

ReturnCell(t, c) ==
    /\ (pc[t] = "idle" /\ t \in team.return) \/ pc[t] = "evict"
    /\ c \in held
    /\ held' = held \ {c}
    /\ IF Full
       THEN lost' = lost \cup {c} /\ UNCHANGED <<pc, op>>
       ELSE /\ Set(t, [op[t] EXCEPT !.cell = c])
            /\ Goto(t, "pushhead")
            /\ UNCHANGED lost
    /\ UNCHANGED <<team, stack, requested, evictor, claims, history>>

PushLoadHead(t) ==
    /\ pc[t] = "pushhead"
    /\ Set(t, [op[t] EXCEPT !.hdr = head])
    /\ Goto(t, "link")
    /\ gone' = gone \ {t}
    /\ UNCHANGED <<team, stack, requested, evictor, cells, claims, stale, cut>>

\* The cell's next is written once, before the swap and its retries.
Link(t) ==
    /\ pc[t] = "link"
    /\ next' = [next EXCEPT ![op[t].cell] = op[t].hdr]
    /\ Goto(t, "pushswap")
    /\ UNCHANGED <<team, head, count, requested, evictor, cells, op, claims, history>>

PushSwap(t) ==
    LET old == next[op[t].cell] # op[t].hdr IN
    /\ pc[t] = "pushswap"
    /\ IF head = op[t].hdr
       THEN /\ head' = op[t].cell
            /\ Goto(t, "increment")
            /\ cut' = (cut \/ old)
            /\ stale' = (stale \/ (old /\ t \in gone))
            /\ UNCHANGED op
       ELSE /\ Set(t, [op[t] EXCEPT !.hdr = head])
            /\ UNCHANGED <<head, pc, cut, stale>>
    /\ UNCHANGED <<team, next, count, requested, evictor, cells, claims, gone>>

\* increment_free_count, and its correction of a count above the maximum.
Increment(t) ==
    /\ pc[t] = "increment"
    /\ count' = Wrap(count + 1)
    /\ Set(t, [op[t] EXCEPT !.fc = Wrap(count + 1)])
    /\ Goto(t, IF count >= NCells THEN "cap" ELSE Home(t))
    /\ UNCHANGED <<team, next, head, requested, evictor, cells, claims, history>>

CapSwaps(t) == count = op[t].fc

Cap(t) ==
    /\ pc[t] \in {"cap", "uncount"}
    /\ count' = IF pc[t] = "uncount" THEN Wrap(count - 1)
                ELSE IF CapSwaps(t) THEN NCells ELSE count
    /\ Set(t, [op[t] EXCEPT !.fc = IF CapSwaps(t) THEN @ ELSE count])
    /\ Goto(t, IF pc[t] = "cap" /\ ~CapSwaps(t) /\ count > NCells THEN "cap"
               ELSE IF pc[t] = "cap" /\ op'[t].fc < NCells THEN "uncount"
               ELSE Home(t))
    /\ UNCHANGED <<team, next, head, requested, evictor, cells, claims, history>>

------------------------------------------------------------------------------
Ask(t) == AskFree(t) \/ AskTotal(t) \/ AddRequest(t) \/ Evict(t)

Claim(t) ==
    \/ LoadHead(t) \/ LoadCount(t) \/ Reduce(t) \/ SwapCount(t)
    \/ ReadNext(t) \/ PopFails(t) \/ SwapHead(t)
    \/ CheckReserve(t) \/ NotifyEvictor(t) \/ ClaimSatisfied(t) \/ Claimed(t)

Return(t) ==
    \/ PushLoadHead(t) \/ Link(t) \/ PushSwap(t)
    \/ Increment(t) \/ Cap(t)

Next ==
    \/ \E t \in Threads :
        \/ \E n \in 1..MaxBatch : Request(t, n) \/ ClaimUnasked(t, n)
        \/ Ask(t)
        \/ Claim(t)
        \/ \E c \in Cells : ReturnCell(t, c)
        \/ Return(t)

Spec == Init /\ [][Next]_vars

FairSpec ==
    /\ Spec
    /\ \A t \in Threads : WF_vars(Claim(t)) /\ WF_vars(Return(t))

------------------------------------------------------------------------------
\* The cells from h on, along the links nx.
Walk(nx, h) ==
    LET walk[n \in 0..NCells] ==
            IF n = 0 THEN h ELSE IF walk[n - 1] = END THEN END ELSE nx[walk[n - 1]]
    IN  walk

\* They stop at the first END, or in a cycle after as many as there are.
StackOf(nx, h) ==
    LET walk == Walk(nx, h)
        depth == Min({n \in 0..NCells : n = NCells \/ walk[n] = END})
    IN  [n \in 1..depth |-> walk[n - 1]]

Stacked == StackOf(next, head)

\* A cell that is being pushed is the thread's until the head leads to it.
Pushed(t) == IF pc[t] \in {"pushhead", "link", "pushswap"} THEN {op[t].cell} ELSE {}

Asking == {"ask", "total", "add", "evict"}
Claiming == {"head", "count", "reduce", "swapcount", "read", "swap",
             "reserve", "notify", "load", "clear", "subtract"}

TypeOK ==
    /\ team \in Teams
    /\ next \in [Cells -> Cells \cup {END}] /\ head \in Cells \cup {END}
    /\ count \in 0..(Word - 1) /\ requested \in 0..(Word - 1)
    /\ evictor \in BOOLEAN
    /\ held \subseteq Cells /\ lost \subseteq Cells
    /\ pc \in [Threads -> {"idle"} \cup Asking \cup Claiming \cup Pushing]
    /\ op \in [Threads -> [n : 0..MaxBatch, want : 0..MaxBatch, add : BOOLEAN,
                           hdr : Cells \cup {END}, nxt : Cells \cup {END},
                           got : SUBSET Cells, fc : 0..(Word - 1), store : 0..(Word - 1),
                           cell : Cells \cup {END}]]
    /\ gone \subseteq Threads /\ stale \in BOOLEAN /\ cut \in BOOLEAN

Places(c) ==
    Cardinality({i \in DOMAIN Stacked : Stacked[i] = c})
    + (IF c \in held THEN 1 ELSE 0) + (IF c \in lost THEN 1 ELSE 0)
    + Cardinality({t \in Threads : c \in op[t].got})
    + Cardinality({t \in Threads : c \in Pushed(t)})

\* A cell is never in two places -- on the stack twice, or on it and with a thread,
\* or with two -- however claims and returns overlap, until the head is swapped by
\* a claim whose head was popped and came back (ABA), or by a push that goes on with
\* the next it wrote before its swap failed, after a claim has popped a cell.
NeverTwoPlaces == ~stale => \A c \in Cells : Places(c) <= 1

\* And until a push goes on after its swap has failed none is missing either: every
\* cell is on the stack, with a thread, in use, or one that a failed claim or a full
\* stack dropped.  (What came on the stack before the swap is unlinked by it.)
NoneMissing == ~stale /\ ~cut => \A c \in Cells : Places(c) = 1

\* Until then the stack changes at its top only: every step pops the first cell,
\* pushes one, or leaves the chain as it is, though a cell keeps its next when it
\* is popped and a claim leads the head to a next it read some steps ago.
OnlyTheTop ==
    [][LET new == Stacked'
       IN  \/ stale' \/ cut'
           \/ new = Stacked
           \/ Stacked # << >> /\ new = Tail(Stacked)
           \/ new # << >> /\ Tail(new) = Stacked]_stack

\* With one claiming thread the retry of a push is all there is to fear: no other
\* thread pops, and what it has popped itself does not come back before it has read
\* the head again.
OneClaimerNoABA ==
    (\A t, u \in team.claim : t = u) /\ stale => cut

\* A claim gets through its loops over the count and the head and returns,
\* with cells or without, or it reaches notify_evictor, where the evictor may
\* clear the flag between any two test_and_sets and keep it there.
ClaimReturns ==
    \A t \in Threads : pc[t] = "head" ~> pc[t] \in {"idle", "notify"}

------------------------------------------------------------------------------
\* The inductive invariant the theorems of FreeMemoryProofs rest on.

\* While nothing is stale there is a set of live cells: the head leads into it, no
\* link leads out of it, and each leads to a cell of a lower rank, since it was
\* pushed before.
Live(l, r) ==
    /\ head \in l \cup {END}
    /\ \A c \in l : next[c] \in l \cup {END} /\ (next[c] # END => r[next[c]] < r[c])

\* While no push has gone on after a failed swap the stack is a list of them.
On(s) == {s[i] : i \in DOMAIN s}
IsChain(s) ==
    /\ \A i, j \in 1..Len(s) : s[i] = s[j] => i = j
    /\ head = IF Len(s) = 0 THEN END ELSE s[1]
    /\ \A i \in 1..Len(s) : next[s[i]] = IF i = Len(s) THEN END ELSE s[i + 1]

\* A cell that is not live has one place; one that is live has none but the stack.
Holds(t) == op[t].got \cup Pushed(t)
Out(c) == c \in held \cup lost \/ \E t \in Threads : c \in Holds(t)

Placed(l) ==
    /\ held \cap lost = {} /\ \A c \in l : ~Out(c)
    /\ \A t \in Threads : Holds(t) \cap (held \cup lost) = {}
    /\ \A t, u \in Threads : t # u => Holds(t) \cap Holds(u) = {}

\* What a thread that is not overtaken knows of what it has read.
Loaded == {"count", "reduce", "swapcount", "read", "swap"}

Knows(t, l) ==
    /\ pc[t] \in Loaded /\ t \notin gone => op[t].hdr = END \/ ~Out(op[t].hdr)
    /\ pc[t] = "swap" /\ t \notin gone => op[t].nxt = next[op[t].hdr]
    /\ pc[t] = "link" /\ t \notin gone => op[t].hdr \in l \cup {END}
    /\ pc[t] = "pushswap" /\ t \notin gone => next[op[t].cell] \in l \cup {END}

\* What a thread has at its control point.
Control(t) ==
    /\ pc[t] \in Claiming \cup Asking => t \in team.claim
    /\ pc[t] \notin Claiming \ {"head", "count", "reduce", "swapcount"} => op[t].got = {}
    /\ pc[t] \in Asking \cup {"head"} \cup Loaded => op[t].n # 0
    /\ pc[t] = "reserve" => op[t].got # {}
    /\ pc[t] = "notify" /\ op[t].got = {} => op[t].n # 0
    /\ op[t].n # 0 => t \in team.claim
    /\ pc[t] = "swap" => op[t].hdr # END
    /\ pc[t] \in {"pushhead", "link", "pushswap"} => op[t].cell # END

\* A thread that is the only one to claim can be overtaken by itself only.
OneClaims == \A t, u \in team.claim : t = u
ByItself(t) ==
    /\ pc[t] \in {"count", "reduce", "swapcount"} => t \notin gone
    /\ pc[t] \in {"read", "swap"} /\ t \in gone => op[t].hdr \in op[t].got

Ranks(l) == {r \in [Cells -> Nat] : \E m \in Nat : \A c \in l : r[c] <= m}

StackInv(l) ==
    /\ \E r \in Ranks(l) : Live(l, r)
    /\ Placed(l)
    /\ \A t \in Threads : Knows(t, l)

ChainInv(s) == IsChain(s) /\ \A c \in Cells : c \in On(s) \/ Out(c)

Lists == UNION {[1..n -> Cells] : n \in 0..NCells}

FMInv ==
    /\ TypeOK
    /\ \A t \in Threads : Control(t)
    /\ OneClaims => (stale => cut) /\ \A t \in Threads : ByItself(t)
    /\ ~stale => \E l \in SUBSET Cells : StackInv(l)
    /\ ~stale /\ ~cut => \E s \in Lists : ChainInv(s)

------------------------------------------------------------------------------
\* What a comment of the code says, and the code does not do

\* node_shm_LRU.h: free memory is a stack with atomic variable protection.
NeverTwoOwners ==
    \A s, t \in Threads : s # t => op[s].got \cap (op[t].got \cup held) = {}
=============================================================================
