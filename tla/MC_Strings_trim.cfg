\* StringTrim alone, on every string of up to three bytes: does it remove
\* every leading and trailing space, as its name says?
CONSTANTS
    NoValue = NoValue
    Texts <- MCTexts
    Affixes = {}
    Pieces = {}
    Joins = {}
    KeyValues = {}
SPECIFICATION Spec
\* Each call returns once: the state after its step has no successor.
CHECK_DEADLOCK FALSE
INVARIANT TrimMatchesReference
