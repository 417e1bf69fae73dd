------------------------- MODULE SpscQueueByDrDobbs -------------------------
(***************************************************************************)
(* SpscQueueByDrDobbs<T> (src/data-struct/pcqueue/spsc_queue_by_drdobbs.h) *)
(* a singly linked list with a dummy separator.  The producer owns `first` *)
(* and appends at `last`; the consumer owns `divider`, the node before the *)
(* next element; the producer frees the nodes before `divider`.  The       *)
(* atomic approx_size_ bounds the queue at capacity_.  One producer and    *)
(* one consumer call it through BlockingQueueBySpinLock, which retries     *)
(* TryPut/TryGet until they succeed.                                       *)
(*                                                                         *)
(* Nodes are numbered in allocation order: the dummy is 0 and the n-th     *)
(* TryPut allocates node n holding item n, so the list is the range        *)
(* first .. last, every node below `first` has been deleted, and a         *)
(* pointer is a node number.  Each access to a shared pointer or to        *)
(* approx_size_ is a step.                                                 *)
(***************************************************************************)
EXTENDS Integers, Sequences

CONSTANTS
    Capacity,   \* capacity_
    Items       \* the producer puts 1, 2, ..., Items

VARIABLES
    first, divider, last,   \* node numbers
    approx_size,            \* approx_size_
    ppc, sent,              \* producer: position, items put
    cpc, cval,              \* consumer: position, the value read
    received                \* the values the consumer's Get calls returned

vars == <<first, divider, last, approx_size, ppc, sent, cpc, cval, received>>

Init ==
    /\ first = 0 /\ divider = 0 /\ last = 0
    /\ approx_size = 0
    /\ ppc = "check" /\ sent = 0
    /\ cpc = "check" /\ cval = 0
    /\ received = <<>>

\* TryPut: `if (approx_size_ >= capacity_) return false` -- and the
\* spin-lock wrapper calls it again -- else allocate the node and link it
\* as (*last).next (no other thread reads that field before `last` moves).
ProducerCheck ==
    /\ ppc = "check" /\ sent < Items
    /\ IF approx_size >= Capacity
       THEN UNCHANGED ppc
       ELSE ppc' = "publish"
    /\ UNCHANGED <<first, divider, last, approx_size, sent, cpc, cval, received>>

\* last = (*last).next: publish the new node.
ProducerPublish ==
    /\ ppc = "publish"
    /\ last' = last + 1
    /\ ppc' = "trim"
    /\ UNCHANGED <<first, divider, approx_size, sent, cpc, cval, received>>

\* A bug class for the trim loop: it runs up to `last` instead of
\* `divider`, freeing nodes the consumer has not passed yet.
ProducerTrimToLast ==
    /\ ppc = "trim"
    /\ IF first # last
       THEN /\ first' = first + 1
            /\ UNCHANGED ppc
       ELSE /\ ppc' = "count"
            /\ UNCHANGED first
    /\ UNCHANGED <<divider, last, approx_size, sent, cpc, cval, received>>

\* One iteration of `while (first != divider)`: load divider, and either
\* delete `first` and advance it, or leave the loop.
ProducerTrim ==
    /\ ppc = "trim"
    /\ IF first # divider
       THEN /\ first' = first + 1
            /\ UNCHANGED ppc
       ELSE /\ ppc' = "count"
            /\ UNCHANGED first
    /\ UNCHANGED <<divider, last, approx_size, sent, cpc, cval, received>>

\* ++approx_size_; TryPut returns true and Put returns.
ProducerCount ==
    /\ ppc = "count"
    /\ approx_size' = approx_size + 1
    /\ sent' = sent + 1
    /\ ppc' = "check"
    /\ UNCHANGED <<first, divider, last, cpc, cval, received>>

\* A bug class for TryGet's empty test: a queue of one element looks empty.
ConsumerCheckOffByOne ==
    /\ cpc = "check"
    /\ IF divider + 1 # last /\ divider # last
       THEN cpc' = "read"
       ELSE UNCHANGED cpc
    /\ UNCHANGED <<first, divider, last, approx_size, ppc, sent, cval, received>>

\* TryGet: `if (divider != last)`, loading `last`; if equal the queue is
\* empty, TryGet returns false and the wrapper calls it again.
ConsumerCheck ==
    /\ cpc = "check"
    /\ IF divider # last
       THEN cpc' = "read"
       ELSE UNCHANGED cpc
    /\ UNCHANGED <<first, divider, last, approx_size, ppc, sent, cval, received>>

\* C: *element = (*divider).next->value.
ConsumerRead ==
    /\ cpc = "read"
    /\ cval' = divider + 1
    /\ cpc' = "advance"
    /\ UNCHANGED <<first, divider, last, approx_size, ppc, sent, received>>

\* A bug class for D: the consumer jumps `divider` to `last`.
ConsumerAdvanceToLast ==
    /\ cpc = "advance"
    /\ divider' = last
    /\ cpc' = "uncount"
    /\ UNCHANGED <<first, last, approx_size, ppc, sent, cval, received>>

\* D: divider = (*divider).next: publish that the node was taken.
ConsumerAdvance ==
    /\ cpc = "advance"
    /\ divider' = divider + 1
    /\ cpc' = "uncount"
    /\ UNCHANGED <<first, last, approx_size, ppc, sent, cval, received>>

\* --approx_size_; TryGet returns true and Get returns the value.
ConsumerUncount ==
    /\ cpc = "uncount"
    /\ approx_size' = approx_size - 1
    /\ received' = Append(received, cval)
    /\ cpc' = "check"
    /\ UNCHANGED <<first, divider, last, ppc, sent, cval>>

Producer == ProducerCheck \/ ProducerPublish \/ ProducerTrim \/ ProducerCount
Consumer == ConsumerCheck \/ ConsumerRead \/ ConsumerAdvance \/ ConsumerUncount

Next == Producer \/ Consumer

\* Both threads spin rather than sleep, and the scheduler runs each of them
\* eventually.
Spec == Init /\ [][Next]_vars /\ WF_vars(Producer) /\ WF_vars(Consumer)

-----------------------------------------------------------------------------
TypeOK ==
    /\ first \in 0 .. Items /\ divider \in 0 .. Items /\ last \in 0 .. Items
    /\ approx_size \in -1 .. Capacity
    /\ ppc \in {"check", "publish", "trim", "count"} /\ sent \in 0 .. Items
    /\ cpc \in {"check", "read", "advance", "uncount"} /\ cval \in 0 .. Items
    /\ received \in Seq(1 .. Items)

\* No node is used after the producer has deleted it: the producer's trim,
\* which reads `divider` while the consumer moves it, never frees the node
\* `divider` (which the consumer dereferences to reach the next element)
\* or any node after it.
NoUseAfterFree == first <= divider

\* The elements held: the nodes after `divider` up to `last`.
Contents == [i \in 1 .. last - divider |-> divider + i]

\* The list is a FIFO of at most capacity_ elements, although approx_size_
\* lags behind both threads: TryPut appends at the store of `last`, TryGet
\* removes at the store of `divider`.
Fifo == INSTANCE BoundedFifo WITH Values <- 1 .. Items, Bound <- Capacity,
                                  queue <- Contents
DrDobbsRefinesFifo == Fifo!Spec

\* Through BlockingQueueBySpinLock's retry loops, every item is eventually
\* received.
AllReceived == <>(Len(received) = Items)

=============================================================================
