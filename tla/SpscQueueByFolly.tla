-------------------------- MODULE SpscQueueByFolly --------------------------
(***************************************************************************)
(* SpscQueueByFolly<T> (src/data-struct/pcqueue/spsc_queue_by_folly.h): a  *)
(* lock-free single-producer single-consumer ring of `size` records, with  *)
(* the atomics readIndex_ (written only by the consumer) and writeIndex_   *)
(* (written only by the producer).  One producer thread and one consumer   *)
(* thread call it through BlockingQueueBySpinLock                          *)
(* (blocking_queue_by_spinlock.h), whose Put/Get retry TryPut/TryGet until *)
(* they succeed.                                                           *)
(*                                                                         *)
(* Each access to shared memory is a step: the acquire load of the other  *)
(* thread's index, the record write or read, the release store of the own  *)
(* index.  A thread's relaxed load of its own index is merged into its     *)
(* first step: no other thread writes it.  Acquire/release pairs order the *)
(* record accesses with the index stores, so interleaving these steps is   *)
(* the behaviour the C++ memory model allows here.                         *)
(***************************************************************************)
EXTENDS Integers, Sequences

CONSTANTS
    Size,    \* the constructor's size (capacity_)
    Items    \* the producer puts 1, 2, ..., Items

ASSUME Size >= 2   \* CHECK_GE(size, 2)

Slots == 0 .. Size - 1
Unset == 0   \* a record never constructed (malloc'ed memory)

VARIABLES
    readIndex, writeIndex, records,
    ppc, pcur,        \* producer: position, currentWrite of the ongoing TryPut
    sent,             \* items the producer's Put calls have returned for
    cpc, ccur, cval,  \* consumer: position, currentRead, the value read
    received          \* the values the consumer's Get calls returned

vars == <<readIndex, writeIndex, records, ppc, pcur, sent, cpc, ccur, cval, received>>

\* A bug class for the wrap: the test is `>` instead of `==`.
NextIndexLate(i) == IF i + 1 > Size THEN 0 ELSE i + 1

\* `nextRecord = current + 1; if (nextRecord == capacity_) nextRecord = 0`.
NextIndex(i) == IF i + 1 = Size THEN 0 ELSE i + 1

Init ==
    /\ readIndex = 0 /\ writeIndex = 0
    /\ records = [s \in Slots |-> Unset]
    /\ ppc = "check" /\ pcur = 0 /\ sent = 0
    /\ cpc = "check" /\ ccur = 0 /\ cval = Unset
    /\ received = <<>>

\* A bug class for TryPut: writeIndex_ is stored before the record is
\* constructed (the release store moved up).
ProducerCheckPublishEarly ==
    /\ ppc = "check" /\ sent < Items
    /\ NextIndex(writeIndex) # readIndex
    /\ pcur' = writeIndex
    /\ writeIndex' = NextIndex(writeIndex)
    /\ ppc' = "write"
    /\ UNCHANGED <<readIndex, records, sent, cpc, ccur, cval, received>>

\* TryPut: load writeIndex_ (relaxed), then readIndex_ (acquire).  If the
\* next record is the read index the queue is full: TryPut returns false
\* and PutWithRetrySleep calls it again (a step that changes nothing).
ProducerCheck ==
    /\ ppc = "check" /\ sent < Items
    /\ IF NextIndex(writeIndex) # readIndex
       THEN /\ pcur' = writeIndex
            /\ ppc' = "write"
       ELSE UNCHANGED <<pcur, ppc>>
    /\ UNCHANGED <<readIndex, writeIndex, records, sent, cpc, ccur, cval, received>>

\* new (&records_[currentWrite]) T(element).
ProducerWrite ==
    /\ ppc = "write"
    /\ records' = [records EXCEPT ![pcur] = sent + 1]
    /\ ppc' = "publish"
    /\ UNCHANGED <<readIndex, writeIndex, pcur, sent, cpc, ccur, cval, received>>

\* writeIndex_.store(nextRecord, release); TryPut returns true, so Put
\* returns and the producer moves to its next item.
ProducerPublish ==
    /\ ppc = "publish"
    /\ writeIndex' = NextIndex(pcur)
    /\ sent' = sent + 1
    /\ ppc' = "check"
    /\ UNCHANGED <<readIndex, records, pcur, cpc, ccur, cval, received>>

\* A bug class for TryGet: readIndex_ is stored before the record is
\* moved out, handing the slot back to the producer too early.
ConsumerCheckReleaseEarly ==
    /\ cpc = "check"
    /\ readIndex # writeIndex
    /\ ccur' = readIndex
    /\ readIndex' = NextIndex(readIndex)
    /\ cpc' = "read"
    /\ UNCHANGED <<writeIndex, records, ppc, pcur, sent, cval, received>>

\* A bug class for TryGet's empty test: it treats a queue holding one
\* element as empty.
ConsumerCheckOffByOne ==
    /\ cpc = "check"
    /\ IF NextIndex(readIndex) # writeIndex /\ readIndex # writeIndex
       THEN /\ ccur' = readIndex
            /\ cpc' = "read"
       ELSE UNCHANGED <<ccur, cpc>>
    /\ UNCHANGED <<readIndex, writeIndex, records, ppc, pcur, sent, cval, received>>

\* TryGet: load readIndex_ (relaxed), then writeIndex_ (acquire).  Equal
\* means empty: TryGet returns false and GetWithRetrySleep calls it again.
ConsumerCheck ==
    /\ cpc = "check"
    /\ IF readIndex # writeIndex
       THEN /\ ccur' = readIndex
            /\ cpc' = "read"
       ELSE UNCHANGED <<ccur, cpc>>
    /\ UNCHANGED <<readIndex, writeIndex, records, ppc, pcur, sent, cval, received>>

\* *record = std::forward<T>(records_[currentRead]); ~T().
ConsumerRead ==
    /\ cpc = "read"
    /\ cval' = records[ccur]
    /\ records' = [records EXCEPT ![ccur] = Unset]
    /\ cpc' = "release"
    /\ UNCHANGED <<readIndex, writeIndex, ppc, pcur, sent, ccur, received>>

\* readIndex_.store(nextRecord, release); TryGet returns true, and Get
\* returns the value.
ConsumerRelease ==
    /\ cpc = "release"
    /\ readIndex' = NextIndex(ccur)
    /\ received' = Append(received, cval)
    /\ cpc' = "check"
    /\ UNCHANGED <<writeIndex, records, ppc, pcur, sent, ccur, cval>>

Producer == ProducerCheck \/ ProducerWrite \/ ProducerPublish
Consumer == ConsumerCheck \/ ConsumerRead \/ ConsumerRelease

Next == Producer \/ Consumer

\* Both threads are always runnable (they spin rather than sleep), and the
\* scheduler runs each of them eventually.
Spec == Init /\ [][Next]_vars /\ WF_vars(Producer) /\ WF_vars(Consumer)

-----------------------------------------------------------------------------
TypeOK ==
    /\ readIndex \in Slots /\ writeIndex \in Slots
    /\ records \in [Slots -> 0 .. Items]
    /\ ppc \in {"check", "write", "publish"} /\ pcur \in Slots
    /\ sent \in 0 .. Items
    /\ cpc \in {"check", "read", "release"} /\ ccur \in Slots
    /\ cval \in 0 .. Items
    /\ received \in Seq(1 .. Items)

\* Each Get returns the next item in order, none lost, repeated or torn:
\* the values received are exactly 1, 2, ..., in the order they were put.
ReceivedInOrder == received = [i \in 1 .. Len(received) |-> i]

\* The queue's contents: the published records from readIndex_ up to
\* writeIndex_, less the one the consumer has already moved out (a TryGet
\* takes its element when it reads the record, and gives the slot back at
\* the store of readIndex_).
Contents ==
    LET first == IF cpc = "release" THEN NextIndex(readIndex) ELSE readIndex
        n     == (writeIndex - first + Size) % Size
    IN  [i \in 1 .. n |-> records[(first + i - 1) % Size]]

\* The queue is a FIFO of Size - 1 elements: every step is a TryPut that
\* appends (at the release store of writeIndex_), a TryGet that removes the
\* head (when it moves the record out), or no change to the contents.
Fifo == INSTANCE BoundedFifo WITH Values <- 1 .. Items, Bound <- Size - 1,
                                  queue <- Contents
FollyRefinesFifo == Fifo!Spec

\* Through BlockingQueueBySpinLock's retry loops, every item the producer
\* puts is eventually received.
AllReceived == <>(Len(received) = Items)

=============================================================================
