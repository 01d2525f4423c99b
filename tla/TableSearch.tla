----------------------------- MODULE TableSearch -----------------------------
(***************************************************************************)
(* The three searches of an ordered table: b_search (a key of the timeout  *)
(* table), u32b_search (the bucket of an epoch list a key falls in) and    *)
(* time_interval_b_search (the tier whose time bounds hold a timestamp;    *)
(* the one call of it in the tiers is in a comment).                       *)
(* They share one loop.  It compares the two ends, drops them, and then    *)
(* halves N, which is NOT the length of what is left: the lower half keeps *)
(* N entries, the upper half keeps more, and what remains when N runs out  *)
(* is walked from end to end.                                              *)
(*                                                                         *)
(* One action is one turn of the loop.  Pointers are indexes from the      *)
(* start of the table.  A table of one entry makes N wrap below zero when  *)
(* its second end is dropped; no step looks at N after that, so n = -1     *)
(* stands for it.                                                          *)
(***************************************************************************)
EXTENDS Integers

CONSTANTS Inputs    \* the searches: [alg, len, lb, ub, key]

\* The pointer a search gives when it finds nothing: nullptr, UINT32_MAX.
None == -1

Algorithms == {"b_search", "u32b_search", "time_interval_b_search"}

Index(in) == 0..(in.len - 1)

\* What a caller hands over: a table in increasing order, two buckets at
\* least, and tiers whose time bounds do not overlap.  A table of length 0 is
\* left out: entry_key_upate can hand one to b_search, and so can entry_remove,
\* which then reads what lies at and before the start of the table.
Ordered(in) ==
    /\ in.len \in Nat \ {0}
    /\ in.key \in Nat
    /\ in.lb \in [Index(in) -> Nat]
    /\ in.ub \in [Index(in) -> Nat]
    /\ \A i, j \in Index(in) : i < j => in.lb[i] <= in.lb[j]
    /\ in.alg = "u32b_search" => in.len > 1
    /\ in.alg = "time_interval_b_search" =>
          \A i, j \in Index(in) :
              in.lb[i] <= in.ub[i] /\ (i < j => in.ub[i] <= in.lb[j])

ASSUME InputsAssumption ==
    \A in \in Inputs : in.alg \in Algorithms /\ Ordered(in)

VARIABLES
    in,         \* the table and the key, which no search changes
    beg, end,   \* what is left to search: beg <= i < end
    n,          \* N, halved on every turn
    pc,         \* "first", "last", "halve", "scan" or "done"
    result      \* the index found, or None

vars == <<in, beg, end, n, pc, result>>

Upper(t, i) == IF t.alg = "u32b_search" THEN t.lb[i + 1] ELSE t.ub[i]

\* The entry is the one looked for.
Hit(t, i) ==
    IF t.alg = "b_search"
    THEN t.key = t.lb[i]
    ELSE t.lb[i] <= t.key /\ t.key < Upper(t, i)

\* The last bucket of an epoch list has no upper end.
HitLast(t, i) ==
    IF t.alg = "u32b_search" THEN t.lb[i] <= t.key ELSE Hit(t, i)

AboveFault(t, i) ==
    IF t.alg = "b_search" THEN t.key > t.lb[i] ELSE t.key > Upper(t, i)

\* The entry lies below the one looked for.
Above(t, i) ==
    IF t.alg = "b_search" THEN t.key > t.lb[i] ELSE t.key >= Upper(t, i)

\* The size of N at which the rest is walked entry by entry.
Walked(t) == IF t.alg = "time_interval_b_search" THEN 1 ELSE 0

Init ==
    /\ in \in Inputs
    /\ beg = 0
    /\ end = in.len
    /\ n = in.len
    /\ pc = "first"
    /\ result = None

Done(i) == result' = i /\ pc' = "done" /\ UNCHANGED <<in, beg, end, n>>

CheckFirst ==
    /\ pc = "first"
    /\ IF Hit(in, 0)
       THEN Done(0)
       ELSE /\ beg' = 1 /\ n' = n - 1 /\ pc' = "last"
            /\ UNCHANGED <<in, end, result>>

CheckLastFault ==
    /\ pc = "last"
    /\ end' = end - 1 /\ n' = n - 1 /\ pc' = "halve"
    /\ UNCHANGED <<in, beg, result>>

CheckLast ==
    /\ pc = "last"
    /\ IF HitLast(in, end - 1)
       THEN Done(end - 1)
       ELSE /\ end' = end - 1 /\ n' = n - 1 /\ pc' = "halve"
            /\ UNCHANGED <<in, beg, result>>

\* One turn of the loop.  The break at mid >= end is kept.
HalveFault ==
    /\ pc = "halve"
    /\ beg < end
    /\ n' = n
    /\ LET mid == beg + n \div 2 IN
       IF n' <= Walked(in)
       THEN pc' = "scan" /\ UNCHANGED <<in, beg, end, result>>
       ELSE IF mid >= end
       THEN pc' = "done" /\ UNCHANGED <<in, beg, end, result>>
       ELSE IF Hit(in, mid)
       THEN result' = mid /\ pc' = "done" /\ UNCHANGED <<in, beg, end>>
       ELSE /\ IF Above(in, mid)
               THEN beg' = mid /\ UNCHANGED end
               ELSE end' = mid /\ UNCHANGED beg
            /\ UNCHANGED <<in, pc, result>>

Halve ==
    /\ pc = "halve"
    /\ beg < end
    /\ n' = n \div 2
    /\ LET mid == beg + n' IN
       IF n' <= Walked(in)
       THEN pc' = "scan" /\ UNCHANGED <<in, beg, end, result>>
       ELSE IF mid >= end
       THEN pc' = "done" /\ UNCHANGED <<in, beg, end, result>>
       ELSE IF Hit(in, mid)
       THEN result' = mid /\ pc' = "done" /\ UNCHANGED <<in, beg, end>>
       ELSE /\ IF Above(in, mid)
               THEN beg' = mid /\ UNCHANGED end
               ELSE end' = mid /\ UNCHANGED beg
            /\ UNCHANGED <<in, pc, result>>

\* The walk over what is left.
ScanFault ==
    /\ pc = "scan"
    /\ beg < end
    /\ IF Hit(in, beg)
       THEN Done(beg)
       ELSE UNCHANGED vars

Scan ==
    /\ pc = "scan"
    /\ beg < end
    /\ IF Hit(in, beg)
       THEN Done(beg)
       ELSE beg' = beg + 1 /\ UNCHANGED <<in, end, n, pc, result>>

\* Nothing is left.
Exhausted ==
    /\ pc \in {"halve", "scan"}
    /\ beg >= end
    /\ Done(None)

Next == CheckFirst \/ CheckLast \/ Halve \/ Scan \/ Exhausted

Spec == Init /\ [][Next]_vars /\ WF_vars(Next)

-----------------------------------------------------------------------------

TypeOK ==
    /\ in.alg \in Algorithms /\ Ordered(in)
    /\ beg \in Nat
    /\ end \in Nat
    /\ n \in Int
    /\ pc \in {"first", "last", "halve", "scan", "done"}
    /\ result \in {None} \cup Index(in)

\* The entry looked for, by the definition of what is looked for: an entry
\* with the key, the last bucket that starts at or below it, the tier whose
\* bounds hold it.
Wanted(t, i) ==
    /\ t.alg = "b_search" => t.lb[i] = t.key
    /\ t.alg = "u32b_search" =>
          t.lb[i] <= t.key /\ \A j \in Index(t) : j > i => t.key < t.lb[j]
    /\ t.alg = "time_interval_b_search" =>
          t.lb[i] <= t.key /\ t.key < t.ub[i]

\* A search that ends gives an entry that is wanted, and nothing only when
\* the table has none (holey_buffer.h b_search and u32b_search, time_bucket.h):
\* halving an N that is not the length loses no entry.
FindsTheEntry ==
    pc = "done" =>
        IF result = None
        THEN \A i \in Index(in) : ~Wanted(in, i)
        ELSE Wanted(in, result)

\* The entry looked for is never outside of what is left to search: dropping
\* the ends, taking a half or walking past an entry does not leave it behind.
NotLeftBehind ==
    \A i \in Index(in) :
        Wanted(in, i) =>
            /\ pc \in {"halve", "scan"} => beg <= i /\ i < end
            /\ pc = "last" => beg <= i

\* The middle of a turn is always inside what is left: N never passes the
\* number of entries between the two ends, so that the break at mid >= end
\* is never taken and no entry past the table is read.
MiddleIsInside ==
    /\ pc = "halve" /\ beg < end => n <= end - beg
    /\ pc \in {"halve", "scan"} => end < in.len

\* Every search ends: N or the walk always makes progress.
Ends == <>(pc = "done")

=============================================================================
