---------------------------- MODULE BoundedFifo -----------------------------
(***************************************************************************)
(* What every non-blocking producer/consumer queue of                      *)
(* src/data-struct/pcqueue promises: a FIFO of at most Bound elements.     *)
(* TryPut either appends its element or (full, or spuriously) changes      *)
(* nothing; TryGet either removes the head or changes nothing.  A failed   *)
(* call is a stuttering step.                                              *)
(***************************************************************************)
EXTENDS Naturals, Sequences

CONSTANTS Values, Bound

VARIABLE queue

Init == queue = <<>>

Put(e) == Len(queue) < Bound /\ queue' = Append(queue, e)

Get == queue # <<>> /\ queue' = Tail(queue)

Next == (\E e \in Values : Put(e)) \/ Get

Spec == Init /\ [][Next]_queue

=============================================================================
