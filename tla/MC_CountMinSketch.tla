------------------------- MODULE MC_CountMinSketch -------------------------
EXTENDS CountMinSketch

CONSTANTS k1, k2, k3

MCKeys == {k1, k2, k3}

\* Increment, Decrement and the saturating AddCount(key, 300) of the tests.
MCIncs == {1, -1, 300}

\* Columns per row: k1 and k2 share their column in row 0 only, k1 and k3
\* in both rows, so k3's estimate is always polluted by k1 and k2's never
\* in both rows at once.
MCCol == [k \in MCKeys |->
            IF k = k1 THEN [r \in 0 .. 1 |-> 0]
            ELSE IF k = k2 THEN [r \in 0 .. 1 |-> IF r = 0 THEN 0 ELSE 1]
            ELSE [r \in 0 .. 1 |-> 0]]

=============================================================================
