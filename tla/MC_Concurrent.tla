---------------------------- MODULE MC_Concurrent ----------------------------
(***************************************************************************)
(* The multi-threaded components checked in one run: the queues of        *)
(* src/data-struct/pcqueue (each a bounded FIFO that neither crashes nor   *)
(* loses, duplicates or reorders an element, and delivers everything put), *)
(* the PeriodicClosure of src/util over a SimulatedClock, and the         *)
(* HttpServer of src/http with two client connections.                     *)
(* A behaviour runs one of them, chosen in the initial state (`running`),  *)
(* while the others stay in their initial states, so the state space is    *)
(* the sum of the five, not their product.                                 *)
(***************************************************************************)
EXTENDS Naturals

CONSTANTS
    p1, p2, c1, c2,                    \* BlockingQueueBySemaphore's threads
    SemCapacity, SemUsable, SemItems,  \* its Capacity(), inner slots, items
    FollySize, FollyItems,             \* SpscQueueByFolly's size, items
    DrDobbsCapacity, DrDobbsItems,     \* SpscQueueByDrDobbs's capacity_, items
    Period, Waits, Advances, MaxAdvances, MaxSpurious,  \* PeriodicClosure's
    h1, h2, NoConn, MaxTries, MaxBody      \* HttpServer's (see H below)

VARIABLES
    running,
    ring, empty, full, s_ppc, s_sent, s_cpc, taken, crashed,
    readIndex, writeIndex, records, f_ppc, pcur, f_sent, f_cpc, ccur, f_cval,
    f_received,
    first, divider, last, approx_size, d_ppc, d_sent, d_cpc, d_cval, d_received,
    now, events, should_stop, did_stop, rpc, mpc, advances, spurious,
    shutdown, stop, listen, backlog, hpc, tries, cur, closeconn, fd, rbuf,
    handled, wire, peer, replies, terminated

svars == <<ring, empty, full, s_ppc, s_sent, s_cpc, taken, crashed>>
fvars == <<readIndex, writeIndex, records, f_ppc, pcur, f_sent, f_cpc, ccur,
           f_cval, f_received>>
dvars == <<first, divider, last, approx_size, d_ppc, d_sent, d_cpc, d_cval,
           d_received>>
pvars == <<now, events, should_stop, did_stop, rpc, mpc, advances, spurious>>
hvars == <<shutdown, stop, listen, backlog, hpc, tries, cur, closeconn, fd,
           rbuf, handled, wire, peer, replies, terminated>>
allvars == <<running, svars, fvars, dvars, pvars, hvars>>

S == INSTANCE BlockingQueueBySemaphore
       WITH Producers <- {p1, p2}, Consumers <- {c1, c2},
            QueueCapacity <- SemCapacity, InnerUsable <- SemUsable,
            Items <- SemItems, ppc <- s_ppc, sent <- s_sent, cpc <- s_cpc
F == INSTANCE SpscQueueByFolly
       WITH Size <- FollySize, Items <- FollyItems, ppc <- f_ppc,
            sent <- f_sent, cpc <- f_cpc, cval <- f_cval,
            received <- f_received
D == INSTANCE SpscQueueByDrDobbs
       WITH Capacity <- DrDobbsCapacity, Items <- DrDobbsItems,
            ppc <- d_ppc, sent <- d_sent, cpc <- d_cpc, cval <- d_cval,
            received <- d_received

P == INSTANCE PeriodicClosure

\* A request as the server reads it from its line and headers.
Req(m, n, cl, v, b, sp) ==
    [method |-> m, clen |-> n, close |-> cl, ver |-> v, bad |-> b, split |-> sp]

\* The peer of h1 sends a keep-alive HTTP/1.1 POST whose 2-unit body
\* follows a request line split in two segments, then an HTTP/1.0
\* request, which closes the connection.  The peer of h2 sends one of: a
\* POST without Content-Length (read until the peer closes or goes
\* silent), a request whose headers fail to parse, an HTTP/0.0 request.  MaxTries 2 stands for the 100
\* reads of the request-line loop: a split line read in two pieces
\* exhausts it, as a line in 100 pieces does.  No peer resets (see
\* MC_HttpServer_reset.cfg).
HttpScript ==
    [c \in {h1, h2} |->
        IF c = h1
        THEN << {Req("POST", 2, FALSE, "1.1", FALSE, TRUE)},
                {Req("GET", 0, FALSE, "1.0", FALSE, FALSE)} >>
        ELSE << {Req("POST", 0, FALSE, "1.1", FALSE, FALSE),
                 Req("GET", 0, FALSE, "1.1", TRUE, FALSE),
                 Req("GET", 0, FALSE, "0.0", FALSE, FALSE)} >>]
H == INSTANCE HttpServer
       WITH Conns <- {h1, h2}, Script <- HttpScript, ResetConns <- {}

Components == {"semaphore", "folly", "drdobbs", "periodic", "http"}

Init == running \in Components /\ S!Init /\ F!Init /\ D!Init /\ P!Init /\ H!Init

\* A step of one thread of the running component; the others keep still.
SemProducer(p) == running = "semaphore" /\ S!ProducerStep(p) /\ UNCHANGED <<running, fvars, dvars, pvars, hvars>>
SemConsumer(c) == running = "semaphore" /\ S!ConsumerStep(c) /\ UNCHANGED <<running, fvars, dvars, pvars, hvars>>
FollyProducer == running = "folly" /\ F!Producer /\ UNCHANGED <<running, svars, dvars, pvars, hvars>>
FollyConsumer == running = "folly" /\ F!Consumer /\ UNCHANGED <<running, svars, dvars, pvars, hvars>>
DrDobbsProducer == running = "drdobbs" /\ D!Producer /\ UNCHANGED <<running, svars, fvars, pvars, hvars>>
DrDobbsConsumer == running = "drdobbs" /\ D!Consumer /\ UNCHANGED <<running, svars, fvars, pvars, hvars>>
PeriodicRun == running = "periodic" /\ P!RunThread /\ UNCHANGED <<running, svars, fvars, dvars, hvars>>
PeriodicSpurious == running = "periodic" /\ P!RunSpurious /\ UNCHANGED <<running, svars, fvars, dvars, hvars>>
PeriodicMain == running = "periodic" /\ P!MainThread /\ UNCHANGED <<running, svars, fvars, dvars, hvars>>
HttpOthers == UNCHANGED <<running, svars, fvars, dvars, pvars>>
HttpStart(A) == running = "http" /\ A /\ HttpOthers
HttpServerThread(c) == running = "http" /\ H!Server(c) /\ HttpOthers

Next ==
    \/ \E p \in {p1, p2} : SemProducer(p)
    \/ \E c \in {c1, c2} : SemConsumer(c)
    \/ running = "semaphore" /\ S!Finished /\ UNCHANGED <<running, fvars, dvars, pvars, hvars>>
    \/ FollyProducer \/ FollyConsumer
    \/ DrDobbsProducer \/ DrDobbsConsumer
    \/ PeriodicRun \/ PeriodicSpurious \/ PeriodicMain
    \/ running = "periodic" /\ P!Finished /\ UNCHANGED <<running, svars, fvars, dvars, hvars>>
    \/ running = "http" /\ H!Next /\ HttpOthers

\* Each component's own fairness (see the modules): every thread of the
\* running queue, both threads of the closure, and the server's listen
\* thread, Stop's join and client threads are weakly fair.
Spec ==
    /\ Init /\ [][Next]_allvars
    /\ \A p \in {p1, p2} : WF_allvars(SemProducer(p))
    /\ \A c \in {c1, c2} : WF_allvars(SemConsumer(c))
    /\ WF_allvars(FollyProducer) /\ WF_allvars(FollyConsumer)
    /\ WF_allvars(DrDobbsProducer) /\ WF_allvars(DrDobbsConsumer)
    /\ WF_allvars(PeriodicRun) /\ WF_allvars(PeriodicMain)
    /\ WF_allvars(HttpStart(H!ListenThread)) /\ WF_allvars(HttpStart(H!StopJoin))
    /\ \A c \in {h1, h2} : WF_allvars(HttpServerThread(c))

-----------------------------------------------------------------------------
TypeOK == /\ running \in Components
          /\ S!TypeOK /\ F!TypeOK /\ D!TypeOK /\ P!TypeOK /\ H!TypeOK

\* BlockingQueueBySemaphore: neither CHECK on the inner running's TryPut or
\* TryGet fails, whatever the interleaving of two producers and two consumers.
NoCheckFailure == S!NoCheckFailure

\* BlockingQueueBySemaphore: each producer's items are taken in the order
\* put, none lost or duplicated.
FifoPerProducer == S!FifoPerProducer

\* SpscQueueByFolly: the consumer's Get calls return 1, 2, ... in order.
ReceivedInOrder == F!ReceivedInOrder

\* SpscQueueByDrDobbs: the producer's trim never frees a node the consumer
\* still dereferences.
NoUseAfterFree == D!NoUseAfterFree

\* Each running implements BoundedFifo: the RingBuffer under the mutex, the
\* Folly ring with Size - 1 elements, the Dr Dobb's list with capacity_.
RingRefinesFifo == S!RingRefinesFifo
FollyRefinesFifo == F!FollyRefinesFifo
DrDobbsRefinesFifo == D!DrDobbsRefinesFifo

\* Every item put is eventually taken, through the semaphores' sleeps or
\* BlockingQueueBySpinLock's retry loops, whichever queue is running.
AllDelivered == /\ running = "semaphore" => S!AllDelivered
                /\ running = "folly" => F!AllReceived
                /\ running = "drdobbs" => D!AllReceived

\* PeriodicClosure: the destructor returns unless the process aborts,
\* even when a notification is lost before the Run thread waits and the
\* wait may wake spuriously.
DestructorReturns == running = "periodic" => P!DestructorReturns

\* HttpServer: a request with a Content-Length reaches HandleRequest with
\* exactly its body, however its segments arrive between Reads.
BodyIntact == H!BodyIntact

\* HttpServer: Stop returns, the accept loop and every client thread
\* ending through Accept's and Read's timeouts, whatever the peers do.
StopReturns == running = "http" => H!StopReturns

=============================================================================
