------------------------------ MODULE SrswQueue ------------------------------
(***************************************************************************)
(* SharedQueue_SRSW (c_experiments/src/entry_holder.h): the ring between   *)
(* one writing and one reading thread of a process.  It carries the        *)
(* removal requests of a tier and the restore and cropping work of the     *)
(* hash tables.                                                            *)
(*                                                                         *)
(* The pointers _r and _w are indices into _entries.  Each side keeps a    *)
(* copy of the other side's index and reloads it only when the copy says   *)
(* that it cannot go on.  Every access to shared memory is a step of its   *)
(* own; the release stores of _r and _w and the acquire loads that read    *)
(* them order the accesses to the entries as the steps are ordered here.   *)
(***************************************************************************)
EXTENDS Naturals, Sequences

CONSTANTS N,            \* ExpectedMax, the length of the ring
          Entries,      \* what may be pushed
          Blank         \* the zeroed entry, and a pop that found nothing

ASSUME QueueAssumption == N \in Nat /\ N >= 2 /\ Blank \notin Entries

VARIABLES
    entries,             \* _entries
    r, w,                \* _r, _w
    rCached, wCached,    \* _r_cached (the writer's), _w_cached (the reader's)
    wpc, arg, next,      \* push: control point, its entry, wrt_update
    rpc, copy,           \* pop: control point and the copied entry
    pushed, popped       \* results of the last push and pop

shared == <<entries, r, w>>
writer == <<rCached, wpc, arg, next, pushed>>
reader == <<wCached, rpc, copy, popped>>
qvars == <<shared, writer, reader>>

Index == 0 .. N - 1
Cells == Entries \cup {Blank}

\* The index after i: back to _beg at _end.
Succ(i) == IF i + 1 = N THEN 0 ELSE i + 1

\* reset()
QInit ==
    /\ entries = [i \in Index |-> Blank]
    /\ r = 0 /\ w = 0 /\ rCached = 0 /\ wCached = 0
    /\ wpc = "idle" /\ arg = Blank /\ next = 0 /\ pushed = "none"
    /\ rpc = "idle" /\ copy = Blank /\ popped = Blank

-----------------------------------------------------------------------------
\* push, the writer

\* full(): the next index against the cached read index
LooksFullFault == FALSE
LooksFull == rCached = Succ(w)

StartPush(e) ==
    /\ wpc = "idle"
    /\ arg' = e
    /\ next' = Succ(w)
    /\ wpc' = IF LooksFull THEN "reload" ELSE "write"
    /\ UNCHANGED <<shared, rCached, pushed, reader>>

\* full(): reload the read index; push returns false if it did not move
ReloadRead ==
    /\ wpc = "reload"
    /\ rCached' = r
    /\ IF r = next
       THEN wpc' = "idle" /\ pushed' = "full"
       ELSE wpc' = "write" /\ pushed' = pushed
    /\ UNCHANGED <<shared, arg, next, reader>>

WriteEntry ==
    /\ wpc = "write"
    /\ entries' = [entries EXCEPT ![w] = arg]
    /\ wpc' = "publish"
    /\ UNCHANGED <<r, w, rCached, arg, next, pushed, reader>>

PublishWrite ==
    /\ wpc = "publish"
    /\ w' = next
    /\ wpc' = "idle" /\ pushed' = "ok"
    /\ UNCHANGED <<entries, r, rCached, arg, next, reader>>

-----------------------------------------------------------------------------
\* pop, the reader

\* emptiness(): the read index against the cached write index
LooksEmpty == r = wCached

StartPop ==
    /\ rpc = "idle"
    /\ rpc' = IF LooksEmpty THEN "reload" ELSE "copy"
    /\ UNCHANGED <<shared, writer, wCached, copy, popped>>

\* emptiness(): reload the write index; pop zeroes the entry and returns false if
\* it did not move
ReloadWrite ==
    /\ rpc = "reload"
    /\ wCached' = w
    /\ IF r = w
       THEN rpc' = "idle" /\ popped' = Blank
       ELSE rpc' = "copy" /\ popped' = popped
    /\ UNCHANGED <<shared, writer, copy>>

CopyEntry ==
    /\ rpc = "copy"
    /\ copy' = entries[r]
    /\ rpc' = "publish"
    /\ UNCHANGED <<shared, writer, wCached, popped>>

PublishRead ==
    /\ rpc = "publish"
    /\ r' = Succ(r)
    /\ rpc' = "idle" /\ popped' = copy
    /\ UNCHANGED <<entries, w, writer, wCached, copy>>

WriterStep == (\E e \in Entries : StartPush(e)) \/ ReloadRead \/ WriteEntry \/ PublishWrite
ReaderStep == StartPop \/ ReloadWrite \/ CopyEntry \/ PublishRead

QNext == WriterStep \/ ReaderStep

QSpec == QInit /\ [][QNext]_qvars

-----------------------------------------------------------------------------
\* Properties

QTypeOK ==
    /\ entries \in [Index -> Cells]
    /\ r \in Index /\ w \in Index /\ rCached \in Index /\ wCached \in Index
    /\ wpc \in {"idle", "reload", "write", "publish"}
    /\ arg \in Cells /\ next \in Index
    /\ rpc \in {"idle", "reload", "copy", "publish"}
    /\ copy \in Cells
    /\ pushed \in {"none", "ok", "full"} /\ popped \in Cells

\* The entries from index i up to index j, going round
Dist(i, j) == IF i <= j THEN j - i ELSE j + N - i
\* The index k steps after i
At(i, k) == IF i + k < N THEN i + k ELSE i + k - N

\* Each side's copy of the other side's index errs on the safe side: the writer
\* takes no cell for free, and the reader no cell for filled, that is not.
CachesAreBehind ==
    /\ Dist(r, w) <= Dist(rCached, w)
    /\ Dist(r, wCached) <= Dist(r, w)

\* The reader never copies the cell the writer is writing, so the plain accesses
\* to _entries do not race.
NoTornEntry == ~(wpc \in {"write", "publish"} /\ rpc \in {"copy", "publish"} /\ r = w)

\* The control points in terms of the indices: past full() the writer has a cell
\* to write, past emptiness() the reader has an entry to copy, and what is written
\* or copied stays put until it is published.
PastTheChecks ==
    /\ wpc # "idle" => next = Succ(w) /\ arg \in Entries
    /\ wpc \in {"write", "publish"} => next # rCached
    /\ wpc = "publish" => entries[w] = arg
    /\ rpc \in {"copy", "publish"} => r # wCached
    /\ rpc = "publish" => copy = entries[r]

\* The inductive invariant the theorems of SrswQueueProofs rest on
QInv == QTypeOK /\ CachesAreBehind /\ PastTheChecks

\* The queue is a FIFO of N - 1 entries.
Contents == [k \in 1 .. Dist(r, w) |-> entries[At(r, k - 1)]]
Fifo == INSTANCE BoundedFifo WITH Capacity <- N - 1, Nothing <- Blank, q <- Contents
FifoSpec == Fifo!FSpec
=============================================================================
