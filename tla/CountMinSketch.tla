--------------------------- MODULE CountMinSketch ---------------------------
(***************************************************************************)
(* CountMinSketch<T> (src/data-struct/count_min_sketch.h): a NumRows by    *)
(* NumCols matrix of unsigned T cells.  AddCount adds a signed increment   *)
(* to one cell per row, clamping each cell to 0 .. max of T, adds the      *)
(* increment unclamped to sum_counts_, and returns the least updated cell; *)
(* GetCount returns the least of the key's cells.                          *)
(*                                                                         *)
(* The class is not thread-safe: each call is one atomic action.           *)
(* Hash64NumWithSeed(key, row + 1) % num_cols_ is the constant Col[k][r].  *)
(* `true_count` and `clamped` are history variables: the exact count of    *)
(* each key (what the callers added) and whether any cell was ever         *)
(* clamped.                                                                *)
(***************************************************************************)
EXTENDS Integers, FiniteSets, Functions

CONSTANTS
    Keys,          \* keys callers pass in
    Incs,          \* increments callers pass to AddCount (Increment is 1,
                   \* Decrement is -1)
    CellBits,      \* bits of T: 8 or 16 (uint32 exceeds TLC's integers)
    NumRows,       \* num_rows_ = ceil(log(1 / delta))
    MemBudgetBytes,\* mem_budget_bytes
    Col,           \* Col[k][r] = Hash64NumWithSeed(k, r + 1) % num_cols_
    MaxCalls       \* bound on the number of AddCount calls per behaviour

ASSUME CellBits \in {8, 16} /\ NumRows \in Nat \ {0}

\* num_cols_ = mem_budget_bytes / sizeof(T) / num_rows_ (integer division).
NumCols == (MemBudgetBytes \div (CellBits \div 8)) \div NumRows

ASSUME NumCols > 0   \* the constructor's CHECK_GT(num_cols_, 0)

Rows     == 0 .. NumRows - 1
Cols     == 0 .. NumCols - 1
CellType == 0 .. 2^CellBits - 1   \* the values of T

\* A bug class for the maximum: 1 << bits instead of (1 << bits) - 1.
MaxValueOffByOne == 2^CellBits

MaxValue == 2^CellBits - 1   \* std::numeric_limits<T>::max()

ASSUME Col \in [Keys -> [Rows -> Cols]]

VARIABLES
    matrix,      \* matrix_[row][col]
    sum_counts,  \* sum_counts_
    calls,       \* AddCount calls so far (bounded by MaxCalls)
    returned,    \* the value the last AddCount returned
    true_count,  \* history: sum of the increments passed for each key
    clamped      \* history: some AddCount clamped some cell

vars == <<matrix, sum_counts, calls, returned, true_count, clamped>>

\* The matrix the constructor allocates and memset()s.
ZeroMatrix == [r \in Rows |-> [c \in Cols |-> 0]]

\* The clamp of AddCount: below 0 becomes 0, above max becomes max.
ClampCell(value) ==
    IF value < 0 THEN 0 ELSE IF value > MaxValue THEN MaxValue ELSE value

\* A bug class for GetCount: it hashes with seed `row` where AddCount uses
\* `row + 1`, so it reads the next row's column.
GetCountWrongSeed(k) ==
    LET vals == {matrix[r][Col[k][(r + 1) % NumRows]] : r \in Rows}
    IN  CHOOSE m \in vals : \A v \in vals : m <= v

\* GetCount(key): the least of the key's cells.
GetCount(k) ==
    LET vals == {matrix[r][Col[k][r]] : r \in Rows}
    IN  CHOOSE m \in vals : \A v \in vals : m <= v

\* AddCount's result: the least updated (clamped) cell, starting from max.
AddCountMin(k, inc) ==
    LET vals == {ClampCell(matrix[r][Col[k][r]] + inc) : r \in Rows}
    IN  CHOOSE m \in vals \cup {MaxValue} : \A v \in vals : m <= v

Init ==
    /\ matrix = ZeroMatrix
    /\ sum_counts = 0
    /\ calls = 0
    /\ returned = 0
    /\ true_count = [k \in Keys |-> 0]
    /\ clamped = FALSE

\* AddCount(key, inc) (and Increment/Decrement): update one cell per row,
\* add inc to sum_counts_, return the least updated cell.
AddCount(k, inc) ==
    /\ calls < MaxCalls
    /\ matrix' = [r \in Rows |-> [c \in Cols |->
                    IF c = Col[k][r] THEN ClampCell(matrix[r][c] + inc)
                    ELSE matrix[r][c]]]
    /\ sum_counts' = sum_counts + inc
    /\ returned' = AddCountMin(k, inc)
    /\ calls' = calls + 1
    /\ true_count' = [true_count EXCEPT ![k] = @ + inc]
    /\ clamped' = (clamped \/ \E r \in Rows : ClampCell(matrix[r][Col[k][r]] + inc)
                                             # matrix[r][Col[k][r]] + inc)

\* A bug class for Clear: sum_counts_ is not reset.
ClearKeepsSum ==
    /\ matrix' = ZeroMatrix
    /\ true_count' = [k \in Keys |-> 0]
    /\ clamped' = FALSE
    /\ UNCHANGED <<sum_counts, calls, returned>>

\* Clear(): zero every cell and sum_counts_.
Clear ==
    /\ matrix' = ZeroMatrix
    /\ sum_counts' = 0
    /\ true_count' = [k \in Keys |-> 0]
    /\ clamped' = FALSE
    /\ UNCHANGED <<calls, returned>>

Next ==
    \/ \E k \in Keys, inc \in Incs : AddCount(k, inc)
    \/ Clear

Spec == Init /\ [][Next]_vars

-----------------------------------------------------------------------------
\* Every cell, and so every count GetCount or AddCount returns, is within
\* 0 .. max of T.
TypeOK ==
    /\ matrix \in [Rows -> [Cols -> CellType]]
    /\ sum_counts \in Int
    /\ calls \in 0 .. MaxCalls
    /\ returned \in CellType
    /\ true_count \in [Keys -> Int]
    /\ clamped \in BOOLEAN

\* The Count-Min guarantee: as long as no AddCount has clamped a cell and
\* no key's exact count is negative (the callers take back only what they
\* added), the estimate GetCount(k) is never below k's exact count.
NoUnderestimateUnclamped ==
    (~clamped /\ \A j \in Keys : true_count[j] >= 0) =>
        \A k \in Keys : GetCount(k) >= true_count[k]

\* sum_counts_ tracks the exact mass: while no cell has been clamped, each
\* row's cells add up to sum_counts_.
RowSumsMatchUnclamped ==
    ~clamped => \A r \in Rows : SumFunction(matrix[r]) = sum_counts

\* What the callers rely on, with saturation allowed for: while no key's
\* exact count is negative, the estimate of a key is at least its exact
\* count capped at max of T.
NoUnderestimate ==
    \A k \in Keys :
        (\A j \in Keys : true_count[j] >= 0) =>
            GetCount(k) >= IF true_count[k] > MaxValue THEN MaxValue ELSE true_count[k]

=============================================================================
