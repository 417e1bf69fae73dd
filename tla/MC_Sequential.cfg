\* The cuckoo filter, the count-min sketch, the expandable Bloom filter, the LRU map, the
\* integer conversions, the string helpers, MD5 and the file streams, one
\* behaviour each (see MC_Sequential for the instances' constants).
CONSTANTS
    \* The cuckoo filter with 4-bit tags, two per byte: 4 expected elements
    \* give 2 buckets of 4 slots (the constructor doubles the single bucket
    \* as the fill fraction is 1), so the table fills after 8 inserts and
    \* the kick loop and the victim slot are reached; MaxCuckooCount 3
    \* allows two kicks, so a tag is carried on and evicted again.  HashLows:
    \* 0 becomes tag 1 through the "never zero" fix-up (its alternate bucket
    \* is the other one); 30 is tag 14 (its alternate bucket is itself, and
    \* its top bit is set, which the hasvalue4 trick must tell apart from an
    \* empty lane).
    ExpectedNumElements = 4
    BitsPerElement = 4
    MaxCuckooCount = 3
    HashLows = {0, 30}
    k1 = k1
    k2 = k2
    k3 = k3
    v1 = v1
    v2 = v2
    NoValue = NoValue
    ParseCalls <- MCParseCalls
    Int32Values <- MCInt32Values
    HexValues <- MCHexValues
    MathCalls <- MCMathCalls
    Dates <- MCDates
    Texts <- MCTexts
    Affixes <- MCAffixes
    Pieces <- MCPieces
    Joins <- MCJoins
    KeyValues <- MCKeyValues
    NumberCalls <- NumbersCalls
    StringCalls <- StringsCalls
SPECIFICATION SeqSpec
INVARIANT SeqTypeOK
INVARIANT CuckooContainsMatchesStored
INVARIANT NoUnderestimateUnclamped
INVARIANT RowSumsMatchUnclamped
INVARIANT NoFalseNegative
INVARIANT NoCheckFailure
INVARIANT FilledInOrder
INVARIANT MapMatchesList
INVARIANT CheckFailsOnlyAtZeroCapacity
INVARIANT ParseMatchesReference
INVARIANT DecimalRoundTrip
INVARIANT HexMatchesReference
INVARIANT Int32TablesExact
INVARIANT MathMatchesReference
INVARIANT MkgmtimeMatchesTimegm
INVARIANT StringsMatchReference
INVARIANT DigestMatchesRfc1321
INVARIANT DeliveredInFileOrder
INVARIANT FileHoldsAcceptedBytes
PROPERTY LruRefinesCache
PROPERTY CuckooSetRefinement
