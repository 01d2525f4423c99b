----------------------------- MODULE AtomicQueue -----------------------------
(***************************************************************************)
(* AtomicQueue (c_experiments/src/atomic_queue.h): queues in shared memory *)
(* that processes push requests on and a service thread pops them from.    *)
(*                                                                         *)
(* A cell is pushed at the head and popped at the tail; _prev leads from   *)
(* the tail to the head, 0 is no cell.  A pushing and a popping thread     *)
(* announce themselves in two counts and each waits until the other's is   *)
(* zero.  The cells that are free lie on a stack, AtomicStack, of which a  *)
(* push takes one before it announces itself and to which a pop returns    *)
(* one before it is done, so that the counts do not keep these two apart.  *)
(* An access to shared memory is a step, but for the copy of an entry.     *)
(*                                                                         *)
(* A thread about to follow a reference that is no cell goes to a point    *)
(* where it stays: what the build does from there is not modelled, and     *)
(* the properties say when it cannot happen.  torn is history.             *)
(*                                                                         *)
(* Left out: _popper, which every thread takes before it counts itself.    *)
(* `while ( !test_and_set() ) ;` ends as soon as the flag is up, whoever   *)
(* put it up, so that it keeps nobody out and nothing depends on it.       *)
(***************************************************************************)
EXTENDS Integers, Sequences, FiniteSets

CONSTANTS Queues, Threads,
          NCells,       \* the number of cells of each queue, _max_free_local
          NoItem,       \* what an unused cell and an idle thread hold
          Junk          \* what the _next and _prev of a caller's entry may hold, unset

ASSUME AtomicQueueAssumption == NCells \in [Queues -> Nat \ {0}] /\ Junk \subseteq Int

VARIABLES
    top, link, nfree,   \* _ctrl_free->_next, a cell's _next, _count_free
    head, tail,         \* _q_head, _q_tail
    pushes, pops,       \* _q_push_count, _q_pop_count
    item, prev,         \* a cell's entry and its _prev
    pc, loc, res,       \* per thread: control point, locals, result
    torn                \* the queues whose stack got a cell with the next of before

stack == <<top, link, nfree, torn>>
line == <<head, tail, item, prev>>
mem == <<stack, line>>
counts == <<pushes, pops>>
aqvars == <<mem, counts, pc, loc, res>>

Cells(q) == 1 .. NCells[q]
Refs(q) == 0 .. NCells[q]

END == 0            \* UINT32_MAX, where the stack ends

\* q the queue, el the thread's cell, it the entry, front what it last read of the top
\* of the stack, the head or the tail, back the _next or _prev read, fc and store the
\* locals of reduce_free_count
Fresh(q, it) == [q |-> q, el |-> 0, it |-> it, front |-> 0, back |-> 0, fc |-> 0, store |-> 0]
NoLoc == Fresh(CHOOSE q \in Queues : TRUE, NoItem)

AQInit ==
    /\ top = [q \in Queues |-> 1]
    /\ link = [q \in Queues |-> [c \in Cells(q) |-> IF c = NCells[q] THEN END ELSE c + 1]]
    /\ nfree = NCells /\ torn = {}
    /\ head = [q \in Queues |-> 0] /\ tail = head
    /\ pushes = [q \in Queues |-> 0] /\ pops = pushes
    /\ item = [q \in Queues |-> [i \in Cells(q) |-> NoItem]]
    /\ prev = [q \in Queues |-> [i \in Cells(q) |-> 0]]
    /\ pc = [t \in Threads |-> "out"]
    /\ loc = [t \in Threads |-> NoLoc]
    /\ res = [t \in Threads |-> "none"]

Q(t) == loc[t].q
\* the thread's step from one control point to another
Go(t, from, to) == pc[t] = from /\ pc' = [pc EXCEPT ![t] = to]
Return(t, from, r) == Go(t, from, "out") /\ res' = [res EXCEPT ![t] = r]

-----------------------------------------------------------------------------
\* pop_number of one cell

LoadTop(t) ==
    LET q == Q(t) IN
    /\ IF top[q] = END THEN Return(t, "take", "fail") ELSE Go(t, "take", "load") /\ res' = res
    /\ loc' = [loc EXCEPT ![t].front = top[q]]
    /\ UNCHANGED <<mem, counts>>

\* reduce_free_count.  The outer loop sets what is to be stored anew, the inner one
\* swaps the count again for what was to be stored; a swap that goes through is
\* tried once more, and they end when the count read is what was to be stored.
OuterLoop(t, fc) ==
    /\ Go(t, pc[t], IF fc = 0 THEN "below" ELSE "reduce")
    /\ loc' = [loc EXCEPT ![t].fc = fc, ![t].store = IF fc = 0 THEN 0 ELSE fc - 1]

LoadCountFault(t) ==
    /\ Go(t, "load", "below")
    /\ UNCHANGED <<mem, counts, loc, res>>

LoadCount(t) ==
    /\ pc[t] = "load"
    /\ OuterLoop(t, nfree[Q(t)])
    /\ UNCHANGED <<mem, counts, res>>

SwapCount(t) ==
    LET q == Q(t) IN
    /\ pc[t] = "reduce"
    /\ \/ /\ nfree[q] = loc[t].fc
          /\ nfree' = [nfree EXCEPT ![q] = loc[t].store]
          /\ OuterLoop(t, loc[t].fc)
       \/ /\ nfree[q] \notin {loc[t].fc, loc[t].store}
          /\ Go(t, "reduce", "reduce")
          /\ loc' = [loc EXCEPT ![t].fc = nfree[q]]
          /\ nfree' = nfree
       \/ /\ nfree[q] = loc[t].store
          /\ Go(t, "reduce", "below")
          /\ loc' = [loc EXCEPT ![t].fc = 0, ![t].store = 0]
          /\ nfree' = nfree
    /\ UNCHANGED <<top, link, torn, line, counts, res>>

ReadNext(t) ==
    LET q == Q(t)  first == loc[t].front IN
    /\ CASE first = END -> Return(t, "below", "fail") /\ loc' = loc
         [] first \in Cells(q) -> /\ Go(t, "below", "swap") /\ res' = res
                                  /\ loc' = [loc EXCEPT ![t].back = link[q][first]]
         [] OTHER -> Go(t, "below", "strayed") /\ UNCHANGED <<loc, res>>
    /\ UNCHANGED <<mem, counts>>

SwapTop(t) ==
    LET q == Q(t) IN
    /\ IF top[q] = loc[t].front
       THEN /\ Go(t, "swap", "count")
            /\ top' = [top EXCEPT ![q] = loc[t].back]
            /\ loc' = [loc EXCEPT ![t] = [Fresh(q, loc[t].it) EXCEPT !.el = loc[t].front]]
       ELSE /\ Go(t, "swap", "below")
            /\ loc' = [loc EXCEPT ![t].front = top[q]]
            /\ top' = top
    /\ UNCHANGED <<link, nfree, torn, line, counts, res>>

-----------------------------------------------------------------------------
\* _atomic_stack_push.  The _next of the cell is written once, before the swap is
\* tried and tried again.

AfterFree(t) == IF loc[t].back = 0 THEN "unhead" ELSE "runcount"

\* full(): the cell is not pushed.
SkipFull(t) ==
    /\ Go(t, "free", IF nfree[Q(t)] = NCells[Q(t)] THEN AfterFree(t) ELSE "freetop")
    /\ UNCHANGED <<mem, counts, loc, res>>

LoadFreeTop(t) ==
    /\ Go(t, "freetop", "freelink")
    /\ loc' = [loc EXCEPT ![t].front = top[Q(t)]]
    /\ UNCHANGED <<mem, counts, res>>

WriteNext(t) ==
    /\ Go(t, "freelink", "freeswap")
    /\ link' = [link EXCEPT ![Q(t)][loc[t].el] = loc[t].front]
    /\ UNCHANGED <<top, nfree, torn, line, counts, loc, res>>

SwapFreeTopFault(t) ==
    LET q == Q(t)  el == loc[t].el IN
    /\ Go(t, "freeswap", "freecount")
    /\ top' = [top EXCEPT ![q] = el]
    /\ torn' = IF link[q][el] = loc[t].front THEN torn ELSE torn \cup {q}
    /\ UNCHANGED <<link, nfree, line, counts, loc, res>>

SwapFreeTop(t) ==
    LET q == Q(t)  el == loc[t].el IN
    /\ IF top[q] = loc[t].front
       THEN /\ Go(t, "freeswap", "freecount")
            /\ top' = [top EXCEPT ![q] = el]
            /\ torn' = IF link[q][el] = loc[t].front THEN torn ELSE torn \cup {q}
            /\ loc' = loc
       ELSE /\ Go(t, "freeswap", "freeswap")
            /\ loc' = [loc EXCEPT ![t].front = top[q]]
            /\ UNCHANGED <<top, torn>>
    /\ UNCHANGED <<link, nfree, line, counts, res>>

\* increment_free_count; the count was not full, only this thread adds to it, and no
\* claim stores more than was there less one, so that the cap is not met.
CountFree(t) ==
    /\ Go(t, "freecount", AfterFree(t))
    /\ nfree' = [nfree EXCEPT ![Q(t)] = @ + 1]
    /\ UNCHANGED <<top, link, torn, line, counts, loc, res>>

-----------------------------------------------------------------------------
\* The counts

\* incr_push_count: the first to announce a push steps back while there is a pop.
CountPush(t) ==
    /\ Go(t, "count", IF pushes[Q(t)] = 0 THEN "look" ELSE "wait")
    /\ pushes' = [pushes EXCEPT ![Q(t)] = @ + 1]
    /\ UNCHANGED <<mem, pops, loc, res>>

LookForPop(t) ==
    /\ Go(t, "look", IF pops[Q(t)] = 0 THEN "wait" ELSE "zero")
    /\ UNCHANGED <<mem, counts, loc, res>>

StepBack(t) ==
    /\ Go(t, "zero", "drain")
    /\ pushes' = [pushes EXCEPT ![Q(t)] = 0]
    /\ UNCHANGED <<mem, pops, loc, res>>

Drained(t) ==
    /\ pops[Q(t)] = 0
    /\ Go(t, "drain", "one")
    /\ UNCHANGED <<mem, counts, loc, res>>

StepForth(t) ==
    /\ Go(t, "one", "wait")
    /\ pushes' = [pushes EXCEPT ![Q(t)] = 1]
    /\ UNCHANGED <<mem, pops, loc, res>>

\* wait_on_pop_count
NoPopFault(t) == TRUE
NoPop(t) == pops[Q(t)] = 0

PushMayGo(t) ==
    /\ NoPop(t)
    /\ Go(t, "wait", "fill")
    /\ UNCHANGED <<mem, counts, loc, res>>

\* incr_pop_count
CountPop(t) ==
    /\ Go(t, "rcount", "rwait")
    /\ pops' = [pops EXCEPT ![Q(t)] = @ + 1]
    /\ UNCHANGED <<mem, pushes, loc, res>>

\* wait_on_push_count
NoPushFault(t) == TRUE
NoPush(t) == pushes[Q(t)] = 0

PopMayGo(t) ==
    /\ NoPush(t)
    /\ Go(t, "rwait", "tail")
    /\ UNCHANGED <<mem, counts, loc, res>>

\* decr_push_count and decr_pop_count: subtract, and add back when there was nothing
\* to subtract from -- a push's count may have been zeroed by another; a pop's is
\* only added to and subtracted from, so that it is never missing.
UncountPush(t) ==
    /\ pushes' = [pushes EXCEPT ![Q(t)] = @ - 1]
    /\ IF pushes[Q(t)] = 0 THEN Go(t, "uncount", "recount") /\ res' = res
                           ELSE Return(t, "uncount", "ok")
    /\ UNCHANGED <<mem, pops, loc>>

RecountPush(t) ==
    /\ pushes' = [pushes EXCEPT ![Q(t)] = @ + 1]
    /\ Return(t, "recount", "ok")
    /\ UNCHANGED <<mem, pops, loc>>

UncountPop(t) ==
    /\ pops' = [pops EXCEPT ![Q(t)] = @ - 1]
    /\ Return(t, "runcount", IF loc[t].el = 0 THEN "fail" ELSE "ok")
    /\ UNCHANGED <<mem, pushes, loc>>

-----------------------------------------------------------------------------
\* push_queue

StartPush(t, q, i) ==
    /\ Go(t, "out", "take")
    /\ loc' = [loc EXCEPT ![t] = Fresh(q, i)]
    /\ UNCHANGED <<mem, counts, res>>

\* The caller's entry is copied into the cell, with a _next and a _prev that nobody
\* has set; then the cell's _prev is zeroed.
Copy(t, from, to) ==
    LET q == Q(t)  el == loc[t].el IN
    /\ Go(t, from, to)
    /\ item' = [item EXCEPT ![q][el] = loc[t].it]
    /\ \E n, p \in Junk : /\ link' = [link EXCEPT ![q][el] = n]
                         /\ prev' = [prev EXCEPT ![q][el] = p]
    /\ UNCHANGED <<top, nfree, torn, head, tail, counts, loc, res>>

ClearPrev(t, from, to) ==
    /\ Go(t, from, to)
    /\ prev' = [prev EXCEPT ![Q(t)][loc[t].el] = 0]
    /\ UNCHANGED <<stack, head, tail, item, counts, loc, res>>

ReadHead(t) ==
    /\ Go(t, "front", IF head[Q(t)] = 0 THEN "first" ELSE "back")
    /\ loc' = [loc EXCEPT ![t].front = head[Q(t)]]
    /\ UNCHANGED <<mem, counts, res>>

\* Into an empty queue: the head is swapped, and the loser waits for the tail.
SwapHead(t) ==
    /\ IF head[Q(t)] = 0
       THEN /\ Go(t, "first", "tail1")
            /\ head' = [head EXCEPT ![Q(t)] = loc[t].el]
       ELSE Go(t, "first", "tailwait") /\ head' = head
    /\ UNCHANGED <<stack, tail, item, prev, counts, loc, res>>

\* The tail is swapped in a loop that ends when it holds the cell, and stored again.
SetTail(t, from, to) ==
    /\ Go(t, from, to)
    /\ tail' = [tail EXCEPT ![Q(t)] = loc[t].el]
    /\ UNCHANGED <<stack, head, item, prev, counts, loc, res>>

TailIsSet(t) ==
    /\ tail[Q(t)] # 0
    /\ Go(t, "tailwait", "front")
    /\ UNCHANGED <<mem, counts, loc, res>>

\* Behind others: the _prev of the head is swapped from 0; when another has set it,
\* the next head is awaited.
ReadBack(t) ==
    /\ Go(t, "back", IF loc[t].front \notin Cells(Q(t)) THEN "astray"
                     ELSE IF prev[Q(t)][loc[t].front] = 0 THEN "link" ELSE "next")
    /\ UNCHANGED <<mem, counts, loc, res>>

Links(t) == prev[Q(t)][loc[t].front] = 0

SwapBack(t) ==
    /\ pc[t] = "link"
    /\ IF Links(t)
       THEN /\ Go(t, "link", "publish")
            /\ prev' = [prev EXCEPT ![Q(t)][loc[t].front] = loc[t].el]
       ELSE Go(t, "link", "next") /\ prev' = prev
    /\ UNCHANGED <<stack, head, tail, item, counts, loc, res>>

NextHead(t) ==
    /\ head[Q(t)] # loc[t].front
    /\ Go(t, "next", "back")
    /\ loc' = [loc EXCEPT ![t].front = head[Q(t)]]
    /\ UNCHANGED <<mem, counts, res>>

Publish(t) ==
    /\ Go(t, "publish", "uncount")
    /\ head' = [head EXCEPT ![Q(t)] = loc[t].el]
    /\ UNCHANGED <<stack, tail, item, prev, counts, loc, res>>

-----------------------------------------------------------------------------
\* pop_queue

StartPop(t, q) ==
    /\ Go(t, "out", "rcount")
    /\ loc' = [loc EXCEPT ![t] = Fresh(q, NoItem)]
    /\ UNCHANGED <<mem, counts, res>>

ReadTail(t) ==
    /\ Go(t, "tail", IF tail[Q(t)] = 0 THEN "runcount" ELSE "rback")
    /\ loc' = [loc EXCEPT ![t].front = tail[Q(t)]]
    /\ UNCHANGED <<mem, counts, res>>

ReadPrev(t) ==
    LET q == Q(t)  front == loc[t].front IN
    /\ IF front \in Cells(q)
       THEN Go(t, "rback", "untail") /\ loc' = [loc EXCEPT ![t].back = prev[q][front]]
       ELSE Go(t, "rback", "rastray") /\ loc' = loc
    /\ UNCHANGED <<mem, counts, res>>

\* The tail is swapped for its _prev; a tail that moved is taken instead, and one
\* that became empty ends the pop.
SwapTail(t) ==
    LET q == Q(t) IN
    /\ IF tail[q] = loc[t].front
       THEN /\ Go(t, "untail", "copy")
            /\ tail' = [tail EXCEPT ![q] = loc[t].back]
            /\ loc' = [loc EXCEPT ![t].el = loc[t].front]
       ELSE /\ Go(t, "untail", IF tail[q] = 0 THEN "unhead" ELSE "rback")
            /\ loc' = [loc EXCEPT ![t].front = tail[q]]
            /\ tail' = tail
    /\ UNCHANGED <<stack, head, item, prev, counts, res>>

CopyOut(t) ==
    /\ Go(t, "copy", "free")
    /\ loc' = [loc EXCEPT ![t].it = item[Q(t)][loc[t].el]]
    /\ UNCHANGED <<mem, counts, res>>

\* The head is emptied after the cell has gone back to the stack.
ZeroHead(t) ==
    /\ Go(t, "unhead", "runcount")
    /\ head' = [head EXCEPT ![Q(t)] = 0]
    /\ UNCHANGED <<stack, tail, item, prev, counts, loc, res>>

-----------------------------------------------------------------------------
PushStep(t) ==
    \/ LoadTop(t) \/ LoadCount(t) \/ SwapCount(t) \/ ReadNext(t) \/ SwapTop(t)
    \/ CountPush(t)
    \/ LookForPop(t) \/ StepBack(t) \/ Drained(t) \/ StepForth(t)
    \/ PushMayGo(t)
    \/ Copy(t, "fill", "clear") \/ ClearPrev(t, "clear", "front") \/ ReadHead(t) \/ SwapHead(t)
    \/ SetTail(t, "tail1", "tail2") \/ SetTail(t, "tail2", "refill")
    \/ Copy(t, "refill", "reclear") \/ ClearPrev(t, "reclear", "uncount") \/ TailIsSet(t)
    \/ ReadBack(t) \/ SwapBack(t) \/ NextHead(t) \/ Publish(t)
    \/ UncountPush(t) \/ RecountPush(t)

PopStep(t) ==
    \/ CountPop(t)
    \/ PopMayGo(t)
    \/ ReadTail(t) \/ ReadPrev(t) \/ SwapTail(t) \/ CopyOut(t)
    \/ SkipFull(t) \/ LoadFreeTop(t) \/ WriteNext(t) \/ SwapFreeTop(t) \/ CountFree(t)
    \/ ZeroHead(t) \/ UncountPop(t)

\* empty() and full()
Empty(q) == tail[q] = 0
Full(q) == nfree[q] = 0

-----------------------------------------------------------------------------
\* Properties

Inside == {"fill", "clear", "front", "first", "tail1", "tail2", "refill", "reclear",
           "tailwait", "back", "link", "next", "astray", "publish", "uncount"}
PopInside == {"tail", "rback", "rastray", "untail", "copy", "free", "freetop", "freelink",
              "freeswap", "freecount", "unhead", "runcount"}

\* The cells that a walk along the links finds
Walk(q, from, along) ==
    LET walk[n \in Refs(q)] ==
            [c \in Refs(q) |-> IF n = 0 \/ c = 0 THEN << >> ELSE
                LET d == along[c] IN <<c>> \o (IF d \in Refs(q) THEN walk[n - 1][d] ELSE << >>)]
    IN  IF from \in Refs(q) THEN walk[NCells[q]][from] ELSE << >>

\* A cell that a push has copied its entry into, once more perhaps, but not cleared yet
Uncleared(q, c) == \E t \in Threads : Q(t) = q /\ loc[t].el = c /\ pc[t] \in {"clear", "reclear"}
\* _prev as it is for who waits until the push is over
Back(q) == [c \in Cells(q) |-> IF Uncleared(q, c) THEN 0 ELSE prev[q][c]]

\* From the tail to the head; and down the stack
Chain(q) == Walk(q, tail[q], Back(q))
Free(q) == Walk(q, top[q], link[q])

Members(s) == {s[i] : i \in DOMAIN s}
Contents(q) == [i \in DOMAIN Chain(q) |-> item[q][Chain(q)[i]]]

\* The two counts keep a push and a pop of the same queue apart, with no lock: each
\* announces itself before it looks for the other.
PushPopApart ==
    \A q \in Queues : \A t, u \in Threads :
        ~(Q(t) = q /\ Q(u) = q /\ pc[t] \in Inside /\ pc[u] \in PopInside)

\* A cell taken and not linked yet, or unlinked and not free again
InHand(t) ==
    IF \/ pc[t] \in {"count", "look", "zero", "drain", "one", "wait", "fill", "clear",
                     "front", "first", "tail1", "tailwait", "back", "link", "next"}
       \/ pc[t] \in {"copy", "free", "freetop", "freelink", "freeswap"}
    THEN {loc[t].el} ELSE {}

\* Every cell is on the free stack, in the queue or in one thread's hands, and in
\* one of these places only: a refused or emptied operation leaks nothing.
NoCellLost(q) ==
    LET hands == {t \in Threads : Q(t) = q /\ InHand(t) # {}}
        held == UNION {InHand(t) : t \in hands}
    IN  /\ Members(Free(q)) \cup Members(Chain(q)) \cup held = Cells(q)
        /\ Len(Free(q)) + Len(Chain(q)) + Cardinality(hands) = NCells[q]

\* No thread is where it would follow a reference that is no cell.
Astray(t) == pc[t] \in {"strayed", "astray", "rastray"}

\* Head, tail and top of the stack name cells, and the count of free cells is never
\* ahead of the stack: a push that saw a cell counted finds one.
SoundRefs(q) ==
    /\ {head[q], tail[q], top[q]} \subseteq Refs(q)
    /\ nfree[q] \in 0 .. Len(Free(q))
    /\ \A t \in Threads : Q(t) = q => ~Astray(t)

\* A step appends the entry of a thread that is pushing, or takes the oldest one
\* away for a thread that is popping, or leaves the queue as it is.
FifoStep(q) ==
    \/ Contents(q)' = Contents(q)
    \/ \E t \in Threads : pc[t] \in Inside /\ Contents(q)' = Append(Contents(q), loc[t].it)
    \/ \E t \in Threads : pc[t] = "untail" /\ Contents(q) # << >>
                          /\ Contents(q)' = Tail(Contents(q))
=============================================================================
