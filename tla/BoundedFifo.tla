----------------------------- MODULE BoundedFifo -----------------------------
(***************************************************************************)
(* What a single-reader, single-writer queue promises: entries come out in *)
(* the order they went in, each once; a push is refused only when the      *)
(* queue is full and a pop only when it is empty.  SrswQueue implements it. *)
(***************************************************************************)
EXTENDS Naturals, Sequences

CONSTANTS Entries, Capacity,
          Nothing       \* the result of a pop that found nothing

VARIABLES
    q,            \* what was pushed and not yet popped
    pushed,       \* result of the last push: "none", "ok" or "full"
    popped        \* result of the last pop: an entry or Nothing

fvars == <<q, pushed, popped>>

FInit == q = <<>> /\ pushed = "none" /\ popped = Nothing

Push(e) == /\ Len(q) < Capacity
           /\ q' = Append(q, e)
           /\ pushed' = "ok"
           /\ popped' = popped

PushFull == /\ Len(q) = Capacity
            /\ pushed' = "full"
            /\ UNCHANGED <<q, popped>>

Pop == /\ q # <<>>
       /\ popped' = Head(q)
       /\ q' = Tail(q)
       /\ pushed' = pushed

PopEmpty == /\ q = <<>>
            /\ popped' = Nothing
            /\ UNCHANGED <<q, pushed>>

FNext == (\E e \in Entries : Push(e)) \/ PushFull \/ Pop \/ PopEmpty

FSpec == FInit /\ [][FNext]_fvars
=============================================================================
