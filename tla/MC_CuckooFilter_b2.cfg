\* 2-bit tags, all four in one byte.  HashLows 1 and 2 are tags 1 and 2,
\* whose bit patterns OR into tag 3.  Under these constants WriteTag's
\* 2-bit branch ORs the new tag into the byte without clearing the old bits.
CONSTANTS
    ExpectedNumElements = 4
    BitsPerElement = 2
    MaxCuckooCount = 2
    HashLows = {1, 2}

SPECIFICATION Spec

PROPERTY CuckooSetRefinement
