--------------------------- MODULE MC_HttpServer ---------------------------
(***************************************************************************)
(* Two connections to the server, for the run in which a peer may reset.  *)
(* The peer of c1 sends a keep-alive HTTP/1.1 POST whose 2-unit body      *)
(* follows a request line split in two segments, then an HTTP/1.0         *)
(* request, which closes the connection.  The peer of c2 sends one of: a  *)
(* POST without Content-Length (read until the peer closes or goes        *)
(* silent), a request whose headers fail to parse, an HTTP/0.0 request.   *)
(* MaxTries 2 stands for the 100 reads of the request-line loop.  The     *)
(* same connections are checked without resets in MC_Concurrent.          *)
(***************************************************************************)
EXTENDS HttpServer

CONSTANTS c1, c2

Req(m, n, cl, v, b, sp) ==
    [method |-> m, clen |-> n, close |-> cl, ver |-> v, bad |-> b, split |-> sp]

MCScript ==
    [c \in {c1, c2} |->
        IF c = c1
        THEN << {Req("POST", 2, FALSE, "1.1", FALSE, TRUE)},
                {Req("GET", 0, FALSE, "1.0", FALSE, FALSE)} >>
        ELSE << {Req("POST", 0, FALSE, "1.1", FALSE, FALSE),
                 Req("GET", 0, FALSE, "1.1", TRUE, FALSE),
                 Req("GET", 0, FALSE, "0.0", FALSE, FALSE)} >>]

=============================================================================
