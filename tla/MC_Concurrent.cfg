\* BlockingQueueBySemaphore: two producers and two consumers around a queue
\* whose Capacity() is 3 and which accepts only 2 elements, as
\* SpscQueueByFolly(3) does: the tight case the constructor's Capacity() - 1
\* is there for; three items per producer fill the inner queue while both
\* consumers are mid-call.
\* SpscQueueByFolly: a ring of 3 records (2 usable) and 8 items, so the
\* indexes wrap twice over and both threads find the ring full or empty.
\* SpscQueueByDrDobbs: capacity 2 and 6 items, so approx_size_ blocks the
\* producer while the consumer holds a taken but uncounted element, and the
\* trim loop frees nodes behind a moving divider.
\* PeriodicClosure over a SimulatedClock: a period of 2 microseconds, sleeps
\* of 1 or 2 computed by Run, up to 3 AdvanceTime calls of 1 or 2, and one
\* spurious wake-up.
CONSTANTS
    p1 = p1
    p2 = p2
    c1 = c1
    c2 = c2
    SemCapacity = 3
    SemUsable = 2
    SemItems = 3
    FollySize = 3
    FollyItems = 8
    DrDobbsCapacity = 2
    DrDobbsItems = 6
    Period = 2
    Waits = {1, 2}
    Advances = {1, 2}
    MaxAdvances = 3
    MaxSpurious = 1
    h1 = h1
    h2 = h2
    NoConn = NoConn
    MaxTries = 2
    MaxBody = 2
SPECIFICATION Spec
INVARIANT TypeOK
INVARIANT NoCheckFailure
INVARIANT FifoPerProducer
INVARIANT ReceivedInOrder
INVARIANT NoUseAfterFree
INVARIANT BodyIntact
PROPERTY RingRefinesFifo
PROPERTY FollyRefinesFifo
PROPERTY DrDobbsRefinesFifo
PROPERTY AllDelivered
PROPERTY DestructorReturns
PROPERTY StopReturns
