----------------------------- MODULE RingBuffer -----------------------------
(***************************************************************************)
(* RingBuffer<T> (src/data-struct/ring_buffer.h), a fixed-size circular    *)
(* FIFO over a vector, as a value [data, front, count] with its two        *)
(* operations as operators.  MpmcQueueByMutex                              *)
(* (src/data-struct/pcqueue/mpmc_queue_by_mutex.h) calls each of them      *)
(* under one mutex, so for the threads that use it each call is atomic.    *)
(***************************************************************************)
EXTENDS Integers, Sequences, TLC

CONSTANTS Capacity, Empty   \* capacity_; the value of a never-written slot

ASSUME Capacity \in Nat \ {0}   \* CHECK_GT(capacity_, 0)

\* The constructor: data_(capacity) default-constructed, front_ = count_ = 0.
New == [data |-> [i \in 0 .. Capacity - 1 |-> Empty], front |-> 0, count |-> 0]

\* A bug class for TryPut: the end slot is computed without the modulo's
\* wrap, as front_ + count_ clamped into the vector.
TryPutNoWrap(rb, e) ==
    LET end == IF rb.front + rb.count < Capacity THEN rb.front + rb.count ELSE Capacity - 1
    IN  IF rb.count = Capacity THEN [ok |-> FALSE, rb |-> rb]
        ELSE [ok |-> TRUE,
              rb |-> [rb EXCEPT !.data[end] = e, !.count = @ + 1]]

\* TryPut(element): CHECK_LE(count_, capacity_); false when full; else
\* store at (front_ + count_) % capacity_ and count it.
TryPut(rb, e) ==
    LET checked == Assert(rb.count <= Capacity, "CHECK_LE(count_, capacity_)")
        end     == (rb.front + rb.count) % Capacity
    IN  IF checked /\ rb.count = Capacity THEN [ok |-> FALSE, rb |-> rb]
        ELSE [ok |-> TRUE,
              rb |-> [rb EXCEPT !.data[end] = e, !.count = @ + 1]]

\* A bug class for TryGet: it takes the newest element instead of the
\* oldest (the end slot instead of front_).
TryGetFromBack(rb) ==
    IF rb.count = 0 THEN [ok |-> FALSE, value |-> Empty, rb |-> rb]
    ELSE [ok    |-> TRUE,
          value |-> rb.data[(rb.front + rb.count - 1) % Capacity],
          rb    |-> [rb EXCEPT !.count = @ - 1]]

\* TryGet(element): CHECK_GE(count_, 0); false when empty; else take the
\* front slot, advance front_ modulo capacity_ and uncount it.
TryGet(rb) ==
    LET checked == Assert(rb.count >= 0, "CHECK_GE(count_, 0)")
    IN  IF checked /\ rb.count = 0 THEN [ok |-> FALSE, value |-> Empty, rb |-> rb]
        ELSE [ok    |-> TRUE,
              value |-> rb.data[rb.front],
              rb    |-> [rb EXCEPT !.front = (@ + 1) % Capacity, !.count = @ - 1]]

\* The elements held, front first.
Contents(rb) == [i \in 1 .. rb.count |-> rb.data[(rb.front + i - 1) % Capacity]]

=============================================================================
