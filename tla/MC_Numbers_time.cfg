\* mkgmtime alone, on dates before 1970: does it still return timegm's value?
CONSTANTS
    NoValue = NoValue
    ParseCalls = {}
    Int32Values = {}
    HexValues = {}
    MathCalls = {}
    Dates <- MCEarlyDates
SPECIFICATION Spec
\* Each call returns once: the state after its step has no successor.
CHECK_DEADLOCK FALSE
INVARIANT MkgmtimeMatchesTimegm
