---------------------- MODULE BlockingQueueBySemaphore ----------------------
(***************************************************************************)
(* BlockingQueueBySemaphore<T>                                             *)
(* (src/data-struct/pcqueue/blocking_queue_by_semaphore.h): two POSIX      *)
(* semaphores, full_ (starts at 0) and empty_ (starts at the inner         *)
(* queue's Capacity() - 1), around a non-blocking inner queue.  Put waits  *)
(* on empty_, CHECKs the inner TryPut, posts full_; Get waits on full_,    *)
(* CHECKs the inner TryGet, posts empty_.  TryPut/TryGet use sem_trywait   *)
(* and return false, with no effect, where Put/Get would block.            *)
(*                                                                         *)
(* Threads are Producers and Consumers; each semaphore call and each inner *)
(* call is one step, so every interleaving of the threads is explored.     *)
(* The inner queue is a RingBuffer of InnerUsable slots called atomically: *)
(* exactly MpmcQueueByMutex when InnerUsable = QueueCapacity, and the      *)
(* bounded FIFO that SpscQueueByFolly (size - 1 usable slots) and          *)
(* SpscQueueByDrDobbs implement (see those modules) otherwise.             *)
(*                                                                         *)
(* Each producer puts the items <<p, 1>>, <<p, 2>>, ... <<p, Items>>.      *)
(* A thread that finds its semaphore at 0 either returns false (TryPut,    *)
(* TryGet: a step that changes nothing) or sleeps in sem_wait, which is    *)
(* the same state as not having called yet: the step that takes the       *)
(* token is the return from sem_wait.                                      *)
(***************************************************************************)
EXTENDS Integers, Sequences, SequencesExt, FiniteSets

CONSTANTS
    Producers,      \* producer threads
    Consumers,      \* consumer threads
    QueueCapacity,  \* queue->Capacity()
    InnerUsable,    \* elements the inner queue accepts before TryPut fails
    Items           \* items each producer puts

ASSUME QueueCapacity >= 2   \* CHECK_GE(queue->Capacity(), 2)

Item == Producers \X (1 .. Items)
NoItem == <<"none", 0>>

Ring == INSTANCE RingBuffer WITH Capacity <- InnerUsable, Empty <- NoItem

VARIABLES
    ring,       \* the inner queue
    empty,      \* empty_'s value
    full,       \* full_'s value
    ppc,        \* producer p's position in Put/TryPut
    sent,       \* items producer p has finished putting
    cpc,        \* consumer c's position in Get/TryGet
    taken,      \* history: the items inner TryGet returned, in order
    crashed     \* a CHECK on an inner call failed

vars == <<ring, empty, full, ppc, sent, cpc, taken, crashed>>

\* A bug class for the constructor: empty_ starts at Capacity(), trusting
\* the inner queue to hold that many elements.
EmptyInitCapacity == QueueCapacity

\* empty_(queue->Capacity() - 1).
EmptyInit == QueueCapacity - 1

Init ==
    /\ ring = Ring!New
    /\ empty = EmptyInit
    /\ full = 0
    /\ ppc = [p \in Producers |-> "idle"]
    /\ sent = [p \in Producers |-> 0]
    /\ cpc = [c \in Consumers |-> "idle"]
    /\ taken = <<>>
    /\ crashed = FALSE

\* Put returns from empty_.Lock(), or TryPut's empty_.TryLock() succeeds.
PutAcquire(p) ==
    /\ ~crashed
    /\ ppc[p] = "idle" /\ sent[p] < Items
    /\ empty > 0
    /\ empty' = empty - 1
    /\ ppc' = [ppc EXCEPT ![p] = "inner"]
    /\ UNCHANGED <<ring, full, sent, cpc, taken, crashed>>

\* CHECK(queue_->TryPut(element)).
PutInner(p) ==
    LET res == Ring!TryPut(ring, <<p, sent[p] + 1>>)
    IN  /\ ~crashed
        /\ ppc[p] = "inner"
        /\ IF res.ok
           THEN /\ ring' = res.rb
                /\ ppc' = [ppc EXCEPT ![p] = "post"]
                /\ UNCHANGED crashed
           ELSE /\ crashed' = TRUE
                /\ UNCHANGED <<ring, ppc>>
        /\ UNCHANGED <<empty, full, sent, cpc, taken>>

\* full_.Unlock(); the call returns.
PutPost(p) ==
    /\ ~crashed
    /\ ppc[p] = "post"
    /\ full' = full + 1
    /\ ppc' = [ppc EXCEPT ![p] = "idle"]
    /\ sent' = [sent EXCEPT ![p] = @ + 1]
    /\ UNCHANGED <<ring, empty, cpc, taken, crashed>>

\* Get returns from full_.Lock(), or TryGet's full_.TryLock() succeeds.
GetAcquire(c) ==
    /\ ~crashed
    /\ cpc[c] = "idle"
    /\ full > 0
    /\ full' = full - 1
    /\ cpc' = [cpc EXCEPT ![c] = "inner"]
    /\ UNCHANGED <<ring, empty, ppc, sent, taken, crashed>>

\* CHECK(queue_->TryGet(element)).
GetInner(c) ==
    LET res == Ring!TryGet(ring)
    IN  /\ ~crashed
        /\ cpc[c] = "inner"
        /\ IF res.ok
           THEN /\ ring' = res.rb
                /\ taken' = Append(taken, res.value)
                /\ cpc' = [cpc EXCEPT ![c] = "post"]
                /\ UNCHANGED crashed
           ELSE /\ crashed' = TRUE
                /\ UNCHANGED <<ring, taken, cpc>>
        /\ UNCHANGED <<empty, full, ppc, sent>>

\* A bug class for Get: empty_.Unlock() is left out.
GetPostNoSignal(c) ==
    /\ ~crashed
    /\ cpc[c] = "post"
    /\ cpc' = [cpc EXCEPT ![c] = "idle"]
    /\ UNCHANGED <<ring, empty, full, ppc, sent, taken, crashed>>

\* empty_.Unlock(); the call returns.
GetPost(c) ==
    /\ ~crashed
    /\ cpc[c] = "post"
    /\ empty' = empty + 1
    /\ cpc' = [cpc EXCEPT ![c] = "idle"]
    /\ UNCHANGED <<ring, full, ppc, sent, taken, crashed>>

\* Every producer has put all its items and every consumer sleeps in
\* full_.Lock() on an empty queue: the program has nothing left to do.
Finished ==
    /\ \A p \in Producers : ppc[p] = "idle" /\ sent[p] = Items
    /\ \A c \in Consumers : cpc[c] = "idle"
    /\ full = 0
    /\ UNCHANGED vars

ProducerStep(p) == PutAcquire(p) \/ PutInner(p) \/ PutPost(p)
ConsumerStep(c) == GetAcquire(c) \/ GetInner(c) \/ GetPost(c)

Next ==
    \/ \E p \in Producers : ProducerStep(p)
    \/ \E c \in Consumers : ConsumerStep(c)
    \/ Finished

\* The OS schedules every runnable thread, and sem_post wakes a sleeper:
\* each thread's steps are weakly fair.
Fairness ==
    /\ \A p \in Producers : WF_vars(ProducerStep(p))
    /\ \A c \in Consumers : WF_vars(ConsumerStep(c))

Spec == Init /\ [][Next]_vars

FairSpec == Spec /\ Fairness

-----------------------------------------------------------------------------
Stage == {"idle", "inner", "post"}

TypeOK ==
    /\ ring \in [data : [0 .. InnerUsable - 1 -> Item \cup {NoItem}],
                 front : 0 .. InnerUsable - 1, count : 0 .. InnerUsable]
    /\ empty \in 0 .. QueueCapacity - 1
    /\ full \in 0 .. QueueCapacity - 1
    /\ ppc \in [Producers -> Stage] /\ cpc \in [Consumers -> Stage]
    /\ sent \in [Producers -> 0 .. Items]
    /\ taken \in Seq(Item)
    /\ crashed \in BOOLEAN

\* Neither CHECK(queue_->TryPut) nor CHECK(queue_->TryGet) ever fails: a
\* token of empty_ always stands for a free inner slot and a token of
\* full_ for an element, whatever the threads' interleaving.
NoCheckFailure == ~crashed

\* FIFO without loss or duplication, per producer: the items of p taken so
\* far followed by those of p still in the inner queue are exactly
\* <<p, 1>> .. <<p, k>>, k being the items of p the inner TryPut accepted.
FifoPerProducer ==
    \A p \in Producers :
        LET accepted == sent[p] + (IF ppc[p] = "post" THEN 1 ELSE 0)
        IN  SelectSeq(taken \o Ring!Contents(ring), LAMBDA it : it[1] = p)
                = [i \in 1 .. accepted |-> <<p, i>>]

\* The inner RingBuffer, called under MpmcQueueByMutex's mutex, is a
\* bounded FIFO of InnerUsable elements.
Fifo == INSTANCE BoundedFifo WITH Values <- Item, Bound <- InnerUsable,
                                  queue <- Ring!Contents(ring)
RingRefinesFifo == Fifo!Spec

\* Every item every producer puts is eventually taken by some consumer.
AllDelivered == <>(Len(taken) = Cardinality(Item))

=============================================================================
