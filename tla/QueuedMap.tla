------------------------------ MODULE QueuedMap ------------------------------
(***************************************************************************)
(* The table that lives in another process (c_experiments/src):            *)
(* QUEUED_map (node_shm_queued.h) turns add, update and del into put       *)
(* requests and get into a get request; ExternalInterfaceQs                *)
(* (array_p_defs.h) carries them in the two AtomicQueues of a service      *)
(* thread, and the answers in an output cell with two flags; put_handler   *)
(* and get_handler (array_p_defs_storage_app.h) serve them.                *)
(*                                                                         *)
(* One section of the key range is modelled, with its put and its get      *)
(* handler.  Every client is given output cell 0: attaching marks all the  *)
(* cells as not taken and then takes the first.  A client process calls    *)
(* from one thread.  _writer, taken as _popper is (module AtomicQueue),    *)
(* keeps nobody out and is left out.                                       *)
(*                                                                         *)
(* Bounds: MaxOps calls of a client that is alone; MaxShared, all puts, as *)
(* soon as a second one has attached, which it does before any call; at    *)
(* most MaxGiveUps gets give up; Retries pushes are tried again (1024).    *)
(***************************************************************************)
EXTENDS AtomicQueue

CONSTANTS Clients, Keys, Values, MaxOps, MaxGiveUps, MaxShared, Retries,
          Unset,        \* the value of a key the table does not hold (0)
          Gone          \* UINT32_MAX: what del stores, and a get that gave up

ASSUME QueuedMapAssumption ==
    /\ Queues = {"put", "get"} /\ Threads = Clients \cup {"putter", "getter"}
    /\ "putter" \notin Clients /\ "getter" \notin Clients
    /\ MaxOps \in Nat /\ MaxGiveUps \in Nat /\ MaxShared \in Nat /\ Retries \in Nat

VARIABLES
    cpc, asked, tries, answer,   \* a client: control point, request, retries, result
    attached,                    \* the clients that have set up their regions
    reader, out,                 \* _outputs[0]: _reader, and _hash with _value
    hpc, held,                   \* the handlers' control points, the answer in hand
    table,                       \* _sections[0]._table
    ops, gets, gaveUp            \* history: calls, gets, and gets that gave up

client == <<cpc, asked, tries, answer, attached>>
cell == <<reader, out>>
server == <<hpc, held, table>>
history == <<ops, gets, gaveUp>>
qmvars == <<aqvars, client, cell, server, history>>

Handlers == {"putter", "getter"}
\* An entry; n numbers the gets, for the properties.
Entry(k, v, n) == [key |-> k, val |-> v, n |-> n]
NoAnswer == Entry(NoItem, Unset, 0)

QMInit ==
    /\ AQInit
    /\ cpc = [c \in Clients |-> "idle"]
    /\ asked = [c \in Clients |-> NoItem] /\ answer = [c \in Clients |-> NoAnswer]
    /\ tries = [c \in Clients |-> 0]
    /\ attached = {}
    /\ reader = FALSE /\ out = NoAnswer
    /\ hpc = [h \in Handlers |-> "more"] /\ held = NoAnswer
    /\ table = [k \in Keys |-> Unset]
    /\ ops = 0 /\ gets = 0 /\ gaveUp = 0

Alone == Cardinality(attached) <= 1

Move(c, from, to) == cpc[c] = from /\ cpc' = [cpc EXCEPT ![c] = to]
HMove(h, from, to) == hpc[h] = from /\ hpc' = [hpc EXCEPT ![h] = to]

-----------------------------------------------------------------------------
\* Clients

\* initialize: the output cells are reset, and with _client_privilege, which lies on
\* the first byte of the get queue's head, the low byte of that head (all of it, for
\* cells within the first 256 bytes, as these are).
Attach(c) ==
    /\ c \notin attached /\ ops = 0
    /\ attached' = attached \cup {c}
    /\ reader' = FALSE
    /\ head' = [head EXCEPT !["get"] = 0]
    /\ UNCHANGED <<stack, tail, item, prev, counts, pc, loc, res, cpc, asked, tries, answer,
                   out, server, history>>

Call(c, to, entry) ==
    /\ c \in attached /\ ops < (IF Alone THEN MaxOps ELSE MaxShared)
    /\ Move(c, "idle", to)
    /\ asked' = [asked EXCEPT ![c] = entry]
    /\ tries' = [tries EXCEPT ![c] = 0]
    /\ ops' = ops + 1
    /\ UNCHANGED <<aqvars, answer, attached, out, server, gaveUp>>

\* add_key_value_known_refs, update; del puts the value Gone
Put(c, k, v) == Call(c, "putfull", Entry(k, v, 0)) /\ UNCHANGED <<reader, gets>>

\* com_req puts _reader up.
Get(c, k) ==
    /\ Alone
    /\ Call(c, "askfull", Entry(k, Unset, gets + 1))
    /\ reader' = TRUE
    /\ gets' = gets + 1

\* com_put and com_req wait while the queue is full, and push ...
Submit(c) ==
    LET q == IF cpc[c] = "putfull" THEN "put" ELSE "get" IN
    /\ ~Full(q) \/ tries[c] > 0
    /\ \/ Move(c, "putfull", "putting")
       \/ Move(c, "askfull", "asking")
    /\ StartPush(c, q, asked[c])
    /\ UNCHANGED <<asked, tries, answer, attached, cell, server, history>>

Pushing(c) ==
    /\ cpc[c] \in {"putting", "asking"}
    /\ PushStep(c)
    /\ UNCHANGED <<client, cell, server, history>>

\* ... and again when the push found no cell; a put that finds none in the end is
\* dropped, a get waits all the same.
PushAgain(c) ==
    /\ pc[c] = "out" /\ res[c] = "fail" /\ tries[c] < Retries
    /\ \/ Move(c, "putting", "putfull")
       \/ Move(c, "asking", "askfull")
    /\ tries' = [tries EXCEPT ![c] = @ + 1]
    /\ UNCHANGED <<aqvars, asked, answer, attached, cell, server, history>>

PushEnds(c) ==
    /\ pc[c] = "out" /\ (res[c] = "fail" => tries[c] = Retries)
    /\ \/ Move(c, "putting", "idle")
       \/ Move(c, "asking", "await")
    /\ UNCHANGED <<aqvars, asked, tries, answer, attached, cell, server, history>>

\* The answer is there when _reader is down ...
AnsweredFault == TRUE
Answered == ~reader

SeeAnswer(c) ==
    /\ Answered
    /\ Move(c, "await", "read")
    /\ UNCHANGED <<aqvars, asked, tries, answer, attached, cell, server, history>>

ReadAnswer(c) ==
    /\ Move(c, "read", "idle")
    /\ answer' = [answer EXCEPT ![c] = out]
    /\ UNCHANGED <<aqvars, asked, tries, attached, cell, server, history>>

\* ... or 1024 ticks have gone by, and _reader is taken down.
GiveUp(c) ==
    /\ gaveUp < MaxGiveUps
    /\ Move(c, "await", "idle")
    /\ gaveUp' = gaveUp + 1
    /\ reader' = FALSE
    /\ answer' = [answer EXCEPT ![c].val = Gone]
    /\ UNCHANGED <<aqvars, asked, tries, attached, out, server, ops, gets>>

ClientStep(c) ==
    \/ Submit(c) \/ Pushing(c) \/ PushAgain(c) \/ PushEnds(c)
    \/ SeeAnswer(c) \/ ReadAnswer(c) \/ GiveUp(c)

-----------------------------------------------------------------------------
\* The service's threads: a handler unloads requests while there are any, and is
\* called again for the next.

QueueOf(h) == IF h = "putter" THEN "put" ELSE "get"

\* unload_put_req, unload_get_req: empty() and pop_queue.  The handler alone pops from
\* its queue, so that the pop does not fail.
Unload(h) ==
    /\ ~Empty(QueueOf(h))
    /\ HMove(h, "more", "popping")
    /\ StartPop(h, QueueOf(h))
    /\ UNCHANGED <<client, cell, held, table, history>>

Popping(h) ==
    /\ hpc[h] = "popping"
    /\ PopStep(h)
    /\ UNCHANGED <<client, cell, server, history>>

\* store_pair and get_val, each under the section's lock
StorePair ==
    /\ pc["putter"] = "out" /\ res["putter"] = "ok"
    /\ HMove("putter", "popping", "more")
    /\ LET setter == loc["putter"].it IN table' = [table EXCEPT ![setter.key] = setter.val]
    /\ UNCHANGED <<aqvars, client, cell, held, history>>

GetVal ==
    /\ pc["getter"] = "out" /\ res["getter"] = "ok"
    /\ HMove("getter", "popping", "write")
    /\ LET getter == loc["getter"].it IN held' = [getter EXCEPT !.val = table[getter.key]]
    /\ UNCHANGED <<aqvars, client, cell, table, history>>

\* write_to_proc: the hash and the value, then _reader is cleared while it is up.
WriteToProc ==
    /\ HMove("getter", "write", "test")
    /\ out' = held
    /\ UNCHANGED <<aqvars, client, reader, held, table, history>>

TestReader ==
    /\ HMove("getter", "test", IF reader THEN "clear" ELSE "more")
    /\ UNCHANGED <<aqvars, client, cell, held, table, history>>

ClearReader ==
    /\ HMove("getter", "clear", "test")
    /\ reader' = FALSE
    /\ UNCHANGED <<aqvars, client, out, held, table, history>>

HandlerStep(h) == Unload(h) \/ Popping(h)

QMNext ==
    \/ \E c \in Clients :
        \/ Attach(c)
        \/ \E k \in Keys : Get(c, k) \/ \E v \in Values \cup {Gone} : Put(c, k, v)
        \/ ClientStep(c)
    \/ \E h \in Handlers : HandlerStep(h)
    \/ StorePair \/ GetVal \/ WriteToProc \/ TestReader \/ ClearReader

QMSpec == QMInit /\ [][QMNext]_qmvars

-----------------------------------------------------------------------------
\* Properties.  They are about one client that is attached, and about a queue while no
\* cell got on its stack of free cells with the _next of before: a push that takes a
\* free cell and the handler that returns another do meet there, with one client too.

Sound(q) == Alone /\ q \notin torn

\* A push and a pop of the same queue are never both inside.
ApartWhenAlone == Alone => PushPopApart

\* No thread follows a reference that is no cell, and the count of free cells promises
\* no push a cell that it does not find.
RefsWhenSound == \A q \in Queues : Sound(q) => SoundRefs(q)

\* No cell of a queue is lost or doubled.
CellsWhenSound == \A q \in Queues : Sound(q) => NoCellLost(q)

\* The requests come out of each queue in the order they went in.
FifoWhenSound == [][\A q \in Queues : Sound(q)' => FifoStep(q)]_qmvars

\* What a get returns was put in the output cell for it or for an earlier get, never
\* read before anything was written, and no get returns an older answer than the one
\* before it: an answer can be late, but is not overtaken.
AnswersGoForward ==
    [][Sound("get")' => \A c \in Clients :
        cpc[c] = "read" /\ cpc'[c] = "idle" =>
            answer'[c].n \in 1 .. asked[c].n /\ answer'[c].n >= answer[c].n]_qmvars

-----------------------------------------------------------------------------
\* The inductive invariants QueuedMapProofs rests on

PushPoints == {"take", "load", "reduce", "below", "strayed", "swap", "count", "look", "zero",
               "drain", "one", "wait", "recount"} \cup Inside
PopPoints == {"rcount", "rwait"} \cup PopInside

Shape ==
    /\ pushes \in [Queues -> Int] /\ pops \in [Queues -> Int]
    /\ pc \in [Threads -> PushPoints \cup PopPoints \cup {"out"}]
    /\ DOMAIN loc = Threads /\ \A t \in Threads : "q" \in DOMAIN loc[t] /\ Q(t) \in Queues
    /\ DOMAIN cpc = Clients /\ DOMAIN hpc = Handlers
    /\ attached \subseteq Clients /\ IsFiniteSet(attached)

\* The clients push and the handlers pop, each from its own queue.
Roles ==
    /\ \A c \in Clients : /\ pc[c] \in PushPoints \cup {"out"}
                          /\ c \notin attached => pc[c] = "out" /\ cpc[c] = "idle"
    /\ \A h \in Handlers : /\ pc[h] \in PopPoints \cup {"out"}
                           /\ pc[h] # "out" => Q(h) = QueueOf(h) /\ hpc[h] = "popping"

\* The count of pops is exact: one handler pops from a queue, and it only adds to the
\* count and takes off it.
HandlerOf(q) == IF q = "put" THEN "putter" ELSE "getter"
PopCount(q) == pops[q] = IF pc[HandlerOf(q)] \in {"rwait"} \cup PopInside THEN 1 ELSE 0

RolesInv == Shape /\ Roles /\ \A q \in Queues : PopCount(q)

\* With one client the count of pushes is exact too, and a push that is inside has
\* seen the count of pops at zero since it was counted.
Announced == {"look", "zero", "wait"} \cup Inside
PushCount(q) ==
    pushes[q] = IF \E c \in attached : Q(c) = q /\ pc[c] \in Announced THEN 1 ELSE 0
ApartInv ==
    Alone => /\ \A c \in attached : pc[c] # "recount"
             /\ \A q \in Queues :
                  /\ PushCount(q)
                  /\ \A c \in attached : Q(c) = q /\ pc[c] \in Inside => pc[HandlerOf(q)] \notin PopInside

-----------------------------------------------------------------------------
\* What a comment of the code says, and the code does not do

\* node_shm_queued.h, get: "returns: the value stored under the key".
GetsItsOwn ==
    [][\A c \in Clients : cpc[c] = "read" /\ cpc'[c] = "idle" => answer'[c].key = asked[c].key]_qmvars

\* atomic_queue.h, wait_on_push_count: "Other pop operations can proceed without
\* intefering with push operations."
NeverBothWait ==
    \A q \in Queues : \A t, u \in Threads :
        ~(Q(t) = q /\ Q(u) = q /\ pc[t] = "wait" /\ pc[u] = "rwait" /\ ~NoPop(t) /\ ~NoPush(u))
=============================================================================
