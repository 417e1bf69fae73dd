----------------------------- MODULE HttpServer -----------------------------
(***************************************************************************)
(* The connection handling of HttpServer (src/http/http_server.cc) over    *)
(* the non-blocking Socket of src/http/socket.{h,cc}.                      *)
(*                                                                         *)
(* Threads: the listen thread of Start (accept loop, then join of every   *)
(* client thread), one HandleClient thread per accepted connection, and   *)
(* the caller of Stop.  Each connection has a peer: a client that sends   *)
(* the requests of its Script in order, waiting for the reply to one      *)
(* before it sends the next (no pipelining), and that may close its side  *)
(* (FIN) or reset the connection (RST) at any point.  TCP delivers the    *)
(* peer's segments in order into `wire`, the data that has arrived and   *)
(* not yet been received.                                                  *)
(*                                                                         *)
(* Data is abstracted to segments: the first part of a request line, a    *)
(* complete request line (standing for the line and its headers, which    *)
(* ReadAndParseHeaders reads), one unit of body, FIN and RST.  A request  *)
(* is a record of what the server reads from its line and headers.        *)
(* http_message.cc and cord.h are not in the repository: ConsumeLine is   *)
(* taken to consume the bytes up to the first newline, ReadAndParseHeaders *)
(* to succeed or throw (`bad`), and Cord::CopyFrom to copy without        *)
(* consuming its source.                                                   *)
(***************************************************************************)
EXTENDS Integers, Sequences, SequencesExt, FiniteSets

CONSTANTS
    Conns,          \* the client connections
    Script,         \* Script[c][i]: the requests the peer of c may send i-th
    ResetConns,     \* the peers that may reset their connection
    MaxTries,       \* the 100 read tries of HandleClient's request-line loop
    MaxBody,        \* the largest Content-Length of a script
    NoConn          \* nullptr, the Accept of no connection

VARIABLES
    shutdown,       \* HttpServer::shutdown_
    stop,           \* the caller of Stop: "idle", "joining", "returned"
    listen,         \* the listen thread (Start): "loop", "accept", "join", "done"
    backlog,        \* connections in the listen queue, not yet accepted
    hpc,            \* hpc[c]: where HandleClient for c is
    tries,          \* tries[c]: the loop counter i of the request-line loop
    cur,            \* cur[c]: the HttpRequest being read
    closeconn,      \* closeconn[c]: close_connection
    fd,             \* fd[c]: Socket::fd_ is open
    rbuf,           \* rbuf[c]: Socket::read_buffer_
    handled,        \* handled[c]: the requests passed to HandleRequest, with their body
    wire,           \* wire[c]: data arrived from the peer, not yet received
    peer,           \* peer[c]: the peer's current request, segments to send, closed
    replies,        \* replies[c]: the replies the peer has received
    terminated      \* an exception escaped a thread: std::terminate

vars == <<shutdown, stop, listen, backlog, hpc, tries, cur, closeconn, fd,
          rbuf, handled, wire, peer, replies, terminated>>

READ_DEADLINE_MS == 3000

Methods == {"GET", "POST", "junk"}
Requests == [method : Methods, clen : 0 .. MaxBody, close : BOOLEAN,
             ver : {"0.0", "1.0", "1.1"}, bad : BOOLEAN, split : BOOLEAN]
\* A fresh HttpMessage: method "GET", version 0.0, no headers.
DefaultRequest == [method |-> "GET", clen |-> 0, close |-> FALSE, ver |-> "0.0",
                   bad |-> FALSE, split |-> FALSE]

Seg(k, r) == [kind |-> k, req |-> r]
Segments == [kind : {"part", "line", "body", "fin", "rst"}, req : Requests]
DataKinds == {"part", "line", "body"}
\* What the peer sends for request r.
SegmentsOf(r) == (IF r.split THEN <<Seg("part", r)>> ELSE <<>>)
                 \o <<Seg("line", r)>> \o [i \in 1 .. r.clen |-> Seg("body", r)]

-----------------------------------------------------------------------------
(* Socket *)

\* A bug class for the accept loop: Accept waits for a connection, as
\* Accept() with its default timeout of -1 does.
AcceptNoTimeout(timeout_ms) == IF backlog # {} THEN backlog ELSE {}

\* Socket::Accept(timeout_ms): a pending connection, or nullptr once the
\* poll times out (only for a non-negative timeout; otherwise it waits).
Accept(timeout_ms) ==
    IF backlog # {} THEN backlog
    ELSE IF timeout_ms >= 0 THEN {NoConn} ELSE {}

\* A bug class for Read: recv's 0 at end of stream is not told apart from
\* data, so the FIN is taken as bytes.
ReadNoEofCheck(c, timeout_ms) ==
    LET w == wire[c]
        k == IF SelectInSeq(w, LAMBDA s : s.kind = "rst") = 0
             THEN Len(w) ELSE SelectInSeq(w, LAMBDA s : s.kind = "rst") - 1
        Res(n, o, b, w2, t) == [n |-> n, fd |-> o, rbuf |-> b, wire |-> w2, thrown |-> t]
    IN  IF ~fd[c] THEN {Res(0, FALSE, rbuf[c], w, FALSE)}
        ELSE IF w = <<>> THEN (IF timeout_ms >= 0 THEN {Res(0, TRUE, rbuf[c], w, FALSE)} ELSE {})
        ELSE IF k > 0 THEN {Res(k, TRUE, rbuf[c] \o SubSeq(w, 1, k), SubSeq(w, k + 1, Len(w)), FALSE)}
        ELSE {Res(0, FALSE, <<>>, Tail(w), TRUE)}

\* Socket::Read(timeout_ms) on c's socket: the set of its possible results
\* (empty while it waits).  Not connected: 0.  Poll timeout: 0.  recv of
\* data: everything that has arrived is appended to read_buffer_.  recv of
\* 0 (FIN): Abort closes fd_ and clears read_buffer_, and 0 is returned.
\* recv error (RST): Close (Flush, then Abort) and throw.
Read(c, timeout_ms) ==
    LET w  == wire[c]
        k  == IF SelectInSeq(w, LAMBDA s : s.kind \notin DataKinds) = 0
              THEN Len(w) ELSE SelectInSeq(w, LAMBDA s : s.kind \notin DataKinds) - 1
        Res(n, o, b, w2, t) == [n |-> n, fd |-> o, rbuf |-> b, wire |-> w2, thrown |-> t]
    IN  IF ~fd[c] THEN {Res(0, FALSE, rbuf[c], w, FALSE)}
        ELSE IF w = <<>> THEN (IF timeout_ms >= 0 THEN {Res(0, TRUE, rbuf[c], w, FALSE)} ELSE {})
        ELSE IF k > 0 THEN {Res(k, TRUE, rbuf[c] \o SubSeq(w, 1, k), SubSeq(w, k + 1, Len(w)), FALSE)}
        ELSE IF Head(w).kind = "fin" THEN {Res(0, FALSE, <<>>, Tail(w), FALSE)}
        ELSE {Res(0, FALSE, <<>>, Tail(w), TRUE)}

\* The socket state after a Read with result rd.
AfterRead(c, rd) ==
    /\ fd' = [fd EXCEPT ![c] = rd.fd]
    /\ rbuf' = [rbuf EXCEPT ![c] = rd.rbuf]
    /\ wire' = [wire EXCEPT ![c] = rd.wire]

\* Socket::Write: AttemptFlush returns at once when fd_ is closed; once
\* the peer has reset the connection send() fails, and AttemptFlush
\* Aborts and throws; otherwise the data goes out.  Then Read(0) receives
\* whatever has arrived.  `sent` tells whether the peer gets the data.
Write(c) ==
    IF fd[c] /\ \E i \in 1 .. Len(wire[c]) : wire[c][i].kind = "rst"
    THEN {[sent |-> FALSE, rd |-> [n |-> 0, fd |-> FALSE, rbuf |-> <<>>,
                                    wire |-> wire[c], thrown |-> TRUE]]}
    ELSE {[sent |-> fd[c], rd |-> rd] : rd \in Read(c, 0)}

\* The peer's side of a Write with result wr.
AfterWrite(c, wr) ==
    /\ replies' = [replies EXCEPT ![c] = IF wr.sent THEN @ + 1 ELSE @]
    /\ AfterRead(c, wr.rd)

-----------------------------------------------------------------------------
(* HandleClient *)

\* The request line is complete once a newline has arrived: ConsumeLine
\* takes every byte before it, so a stale body left in read_buffer_ by
\* the previous request becomes the start of the method word.
LineEnd(buf) == SelectInSeq(buf, LAMBDA s : s.kind = "line")
ParsedRequest(buf) ==
    LET i == LineEnd(buf)
    IN  IF \E j \in 1 .. i - 1 : buf[j].kind = "body"
        THEN [buf[i].req EXCEPT !.method = "junk"]
        ELSE buf[i].req

\* Returning from HandleClient destroys the unique_ptr: ~Socket calls
\* Close, that is Flush (nothing is left to write) and Abort.
ExitAfter(c, w) ==
    /\ hpc' = [hpc EXCEPT ![c] = "done"]
    /\ fd' = [fd EXCEPT ![c] = FALSE]
    /\ rbuf' = [rbuf EXCEPT ![c] = <<>>]
    /\ wire' = [wire EXCEPT ![c] = w]

\* After the request line (lines 144-164): wait for Content-Length bytes,
\* or for a POST without one read until Read returns 0, marking the
\* connection to close unless the request said Connection: close.
EnterBody(c, r) ==
    /\ cur' = [cur EXCEPT ![c] = r]
    /\ hpc' = [hpc EXCEPT ![c] = IF r.clen > 0 THEN "body"
                                 ELSE IF r.method = "POST" THEN "post" ELSE "handle"]
    /\ closeconn' = [closeconn EXCEPT ![c] = @ \/ (r.clen = 0 /\ r.method = "POST" /\ ~r.close)]

\* A bug class for the body loop: an off-by-one in the length test.
BodyCompleteOffByOne(c) == Len(rbuf[c]) >= cur[c].clen - 1

\* The loop condition of line 147.
BodyComplete(c) == Len(rbuf[c]) >= cur[c].clen

\* Lines 100-106: a new request unless close_connection or shutdown_.
HandleClientTop(c) ==
    /\ hpc[c] = "top"
    /\ IF ~closeconn[c] /\ ~shutdown
       THEN /\ hpc' = [hpc EXCEPT ![c] = "line"]
            /\ tries' = [tries EXCEPT ![c] = 0]
            /\ cur' = [cur EXCEPT ![c] = DefaultRequest]
            /\ UNCHANGED <<fd, rbuf, wire>>
       ELSE ExitAfter(c, wire[c]) /\ UNCHANGED <<tries, cur>>
    /\ UNCHANGED <<closeconn, handled, replies, terminated>>

\* Lines 110-117: no complete line yet, so Read; 0 (closed, FIN, or the
\* 3 s deadline) and an exception both return.
HandleClientReadLine(c) ==
    /\ hpc[c] = "line" /\ tries[c] < MaxTries /\ LineEnd(rbuf[c]) = 0
    /\ \E rd \in Read(c, READ_DEADLINE_MS) :
          IF rd.n = 0 THEN ExitAfter(c, rd.wire) /\ UNCHANGED tries
          ELSE AfterRead(c, rd) /\ tries' = [tries EXCEPT ![c] = @ + 1]
                                /\ UNCHANGED hpc
    /\ UNCHANGED <<cur, closeconn, handled, replies, terminated>>

\* Lines 106-142: after MaxTries reads without a line, the loop ends and
\* the default request goes on, whatever read_buffer_ holds.
HandleClientGiveUp(c) ==
    /\ hpc[c] = "line" /\ tries[c] = MaxTries
    /\ EnterBody(c, cur[c])
    /\ UNCHANGED <<tries, fd, rbuf, wire, handled, replies, terminated>>

\* Lines 110 and 125-141: a complete line.  HTTP/0.0 returns without a
\* reply; headers that fail to parse get a BAD_REQUEST reply, written in
\* the catch block, where an exception of Write escapes the thread.
HandleClientParse(c) ==
    /\ hpc[c] = "line" /\ tries[c] < MaxTries /\ LineEnd(rbuf[c]) > 0
    /\ LET r    == ParsedRequest(rbuf[c])
           rest == SubSeq(rbuf[c], LineEnd(rbuf[c]) + 1, Len(rbuf[c]))
       IN  \/ /\ r.ver = "0.0" /\ ExitAfter(c, wire[c])
              /\ UNCHANGED <<cur, closeconn, replies, terminated>>
           \/ /\ r.ver # "0.0" /\ r.bad
              /\ \E wr \in Write(c) :
                    \/ wr.rd.thrown /\ terminated' = TRUE
                       /\ AfterWrite(c, wr) /\ UNCHANGED hpc
                    \/ ~wr.rd.thrown /\ UNCHANGED terminated
                       /\ ExitAfter(c, wr.rd.wire)
                       /\ replies' = [replies EXCEPT ![c] = IF wr.sent THEN @ + 1 ELSE @]
              /\ UNCHANGED <<cur, closeconn>>
           \/ /\ r.ver # "0.0" /\ ~r.bad
              /\ rbuf' = [rbuf EXCEPT ![c] = rest]
              /\ EnterBody(c, r)
              /\ UNCHANGED <<fd, wire, replies, terminated>>
    /\ UNCHANGED <<tries, handled>>

\* Lines 147-156: read until Content-Length bytes are buffered.
HandleClientBody(c) ==
    /\ hpc[c] = "body"
    /\ IF BodyComplete(c)
       THEN hpc' = [hpc EXCEPT ![c] = "handle"] /\ UNCHANGED <<fd, rbuf, wire>>
       ELSE \E rd \in Read(c, READ_DEADLINE_MS) :
               IF rd.n = 0 THEN ExitAfter(c, rd.wire)
               ELSE AfterRead(c, rd) /\ UNCHANGED hpc
    /\ UNCHANGED <<tries, cur, closeconn, handled, replies, terminated>>

\* Line 163: a POST without Content-Length reads until Read returns 0.
\* The loop is outside any try: an exception of Read ends the process.
HandleClientPost(c) ==
    /\ hpc[c] = "post"
    /\ \E rd \in Read(c, READ_DEADLINE_MS) :
          /\ AfterRead(c, rd)
          /\ IF rd.thrown THEN terminated' = TRUE /\ UNCHANGED hpc
             ELSE /\ hpc' = [hpc EXCEPT ![c] = IF rd.n > 0 THEN "post" ELSE "handle"]
                  /\ UNCHANGED terminated
    /\ UNCHANGED <<tries, cur, closeconn, handled, replies>>

\* Lines 166-234: the body is copied from read_buffer_ (which keeps it),
\* the request is handled, the connection is kept only for an HTTP/1.1
\* request without Connection: close, and the reply is written; errors
\* of Write and Flush are caught.
HandleClientReply(c) ==
    /\ hpc[c] = "handle"
    /\ handled' = [handled EXCEPT ![c] = Append(@, [method |-> cur[c].method,
                                                   clen |-> cur[c].clen,
                                                   body |-> Len(rbuf[c])])]
    /\ closeconn' = [closeconn EXCEPT ![c] = @ \/ ~(cur[c].ver = "1.1" /\ ~cur[c].close)]
    /\ \E wr \in Write(c) : AfterWrite(c, wr)
    /\ hpc' = [hpc EXCEPT ![c] = "top"]
    /\ UNCHANGED <<tries, cur, terminated>>

HandleClient(c) ==
    \/ HandleClientTop(c) \/ HandleClientReadLine(c) \/ HandleClientGiveUp(c)
    \/ HandleClientParse(c) \/ HandleClientBody(c) \/ HandleClientPost(c)
    \/ HandleClientReply(c)

-----------------------------------------------------------------------------
(* The listen thread (Start), Stop, and the peers *)

listenvars == <<shutdown, stop, listen, backlog>>
connvars == <<hpc, tries, cur, closeconn, fd, rbuf, handled, wire, replies, terminated>>

\* Line 68: the accept loop runs while shutdown_ is false.
StartLoop ==
    /\ listen = "loop"
    /\ listen' = IF shutdown THEN "join" ELSE "accept"
    /\ UNCHANGED <<shutdown, stop, backlog, connvars, peer>>

\* Lines 69-79: Accept(100) gives a connection, whose HandleClient thread
\* starts, or nullptr after 100 ms.
StartAccept ==
    /\ listen = "accept"
    /\ \E s \in Accept(100) :
          /\ backlog' = backlog \ {s}
          /\ hpc' = IF s = NoConn THEN hpc ELSE [hpc EXCEPT ![s] = "top"]
    /\ listen' = "loop"
    /\ UNCHANGED <<shutdown, stop, tries, cur, closeconn, fd, rbuf, handled,
                   wire, replies, peer, terminated>>

\* Lines 86-87: join every client thread.
StartJoin ==
    /\ listen = "join"
    /\ \A c \in Conns : hpc[c] \in {"idle", "done"}
    /\ listen' = "done"
    /\ UNCHANGED <<shutdown, stop, backlog, connvars, peer>>

\* Lines 90-92: Stop (also called by ~HttpServer) sets shutdown_ ...
StopSet ==
    /\ stop = "idle"
    /\ shutdown' = TRUE /\ stop' = "joining"
    /\ UNCHANGED <<listen, backlog, connvars, peer>>

\* ... lines 93-94: and joins the listen thread.
StopJoin ==
    /\ stop = "joining" /\ listen = "done"
    /\ stop' = "returned"
    /\ UNCHANGED <<shutdown, listen, backlog, connvars, peer>>

\* The peer starts its next request once the previous one is answered.
PeerRequest(c) ==
    /\ ~peer[c].closed /\ peer[c].segs = <<>>
    /\ peer[c].req < Len(Script[c]) /\ replies[c] >= peer[c].req
    /\ \E r \in Script[c][peer[c].req + 1] :
          peer' = [peer EXCEPT ![c].req = @ + 1, ![c].segs = SegmentsOf(r)]
    /\ UNCHANGED <<listenvars, connvars>>

\* A segment of the current request arrives.
PeerSend(c) ==
    /\ ~peer[c].closed /\ peer[c].segs # <<>>
    /\ wire' = [wire EXCEPT ![c] = Append(@, Head(peer[c].segs))]
    /\ peer' = [peer EXCEPT ![c].segs = Tail(@)]
    /\ UNCHANGED <<listenvars, hpc, tries, cur, closeconn, fd, rbuf, handled, replies, terminated>>

\* The peer closes its side (FIN) or, if it may, resets the connection.
PeerClose(c) ==
    /\ ~peer[c].closed
    /\ \E k \in IF c \in ResetConns THEN {"fin", "rst"} ELSE {"fin"} :
          wire' = [wire EXCEPT ![c] = Append(@, Seg(k, DefaultRequest))]
    /\ peer' = [peer EXCEPT ![c].closed = TRUE]
    /\ UNCHANGED <<listenvars, hpc, tries, cur, closeconn, fd, rbuf, handled, replies, terminated>>

Init ==
    /\ shutdown = FALSE /\ stop = "idle" /\ listen = "loop" /\ backlog = Conns
    /\ hpc = [c \in Conns |-> "idle"]
    /\ tries = [c \in Conns |-> 0]
    /\ cur = [c \in Conns |-> DefaultRequest]
    /\ closeconn = [c \in Conns |-> FALSE]
    /\ fd = [c \in Conns |-> TRUE]
    /\ rbuf = [c \in Conns |-> <<>>]
    /\ handled = [c \in Conns |-> <<>>]
    /\ wire = [c \in Conns |-> <<>>]
    /\ peer = [c \in Conns |-> [req |-> 0, segs |-> <<>>, closed |-> FALSE]]
    /\ replies = [c \in Conns |-> 0]
    /\ terminated = FALSE

Server(c) == HandleClient(c) /\ UNCHANGED <<listenvars, peer>>
ListenThread == StartLoop \/ StartAccept \/ StartJoin
Peer(c) == PeerRequest(c) \/ PeerSend(c) \/ PeerClose(c)

\* Once Stop has returned the program goes on without the server.
Stopped == stop = "returned" /\ UNCHANGED vars

Next ==
    \/ /\ ~terminated
       /\ \/ StartLoop \/ StartAccept \/ StartJoin \/ StopSet \/ StopJoin
          \/ \E c \in Conns : Server(c) \/ Peer(c)
    \/ Stopped

\* The server's threads are scheduled; the peers and the caller of Stop
\* act when they choose.
Fairness ==
    /\ WF_vars(ListenThread) /\ WF_vars(StopJoin)
    /\ \A c \in Conns : WF_vars(Server(c))

Spec == Init /\ [][Next]_vars /\ Fairness

-----------------------------------------------------------------------------
TypeOK ==
    /\ shutdown \in BOOLEAN /\ terminated \in BOOLEAN
    /\ stop \in {"idle", "joining", "returned"}
    /\ listen \in {"loop", "accept", "join", "done"}
    /\ backlog \subseteq Conns
    /\ hpc \in [Conns -> {"idle", "top", "line", "body", "post", "handle", "done"}]
    /\ tries \in [Conns -> 0 .. MaxTries]
    /\ cur \in [Conns -> Requests]
    /\ closeconn \in [Conns -> BOOLEAN] /\ fd \in [Conns -> BOOLEAN]
    /\ \A c \in Conns : /\ rbuf[c] \in Seq(Segments) /\ wire[c] \in Seq(Segments)
                        /\ \A i \in 1 .. Len(rbuf[c]) : rbuf[c][i].kind \in DataKinds
                        /\ handled[c] \in Seq([method : Methods, clen : 0 .. MaxBody, body : Nat])
                        /\ peer[c].req \in 0 .. Len(Script[c])
                        /\ peer[c].segs \in Seq(Segments) /\ peer[c].closed \in BOOLEAN
    /\ replies \in [Conns -> Nat]

\* A request with a Content-Length is handed to HandleRequest with exactly
\* its body, however the body's segments arrive between the Reads of the
\* loop at line 147 (and whatever stale bytes ConsumeLine swallowed).
BodyIntact ==
    \A c \in Conns : \A i \in 1 .. Len(handled[c]) :
        handled[c][i].clen > 0 => handled[c][i].body = handled[c][i].clen

\* Stop returns: every HandleClient thread ends (by the read deadline if
\* its peer goes silent) and the listen thread leaves its accept loop and
\* joins them, whatever the peers do.
StopReturns == stop = "joining" ~> stop = "returned"

\* No exception escapes a thread of the server, which would call
\* std::terminate and end the process.
ServerSurvives == ~terminated

=============================================================================
