\* Two connections (see MC_HttpServer); the peer of c2 may close (FIN)
\* or reset (RST) its connection.
CONSTANTS
    c1 = c1
    c2 = c2
    Conns = {c1, c2}
    Script <- MCScript
    ResetConns = {c2}
    MaxTries = 2
    MaxBody = 2
    NoConn = NoConn
SPECIFICATION Spec
INVARIANT ServerSurvives
