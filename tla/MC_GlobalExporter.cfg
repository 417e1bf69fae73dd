\* Two instances of one stat and a config, with a /varz and /configz
\* thread.  A duplicate registration aborts the process, after which
\* nothing happens: deadlock is not an error.
CONSTANTS
    x1 = x1
    x2 = x2
    c1 = c1
    NoExportee = NoExportee
    Exportees <- MCExportees
    NameOf <- MCNameOf
    Stats = {x1, x2}
    CanReset = {x1}
    Valid = {0, 1}
    Inputs <- MCInputs
    Values = {0, 1, 2}
SPECIFICATION Spec
INVARIANT NoCallOnPartialObject
CHECK_DEADLOCK FALSE
