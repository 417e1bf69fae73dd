------------------------ MODULE ExpandableBloomFilter ------------------------
(***************************************************************************)
(* ExpandableBloomFilter (src/data-struct/bloom-filter/                    *)
(* expandable_bloom_filter.cc): a chain of BloomFilter instances, each     *)
(* with a cutoff size.  Insert goes into the last instance; when that one  *)
(* has taken cutoff_size_ keys a new instance is appended whose cutoff and *)
(* bit size are the sums over all instances so far, so capacity doubles.   *)
(*                                                                         *)
(* The class is not thread-safe: each public call is one atomic action.    *)
(* A failing CHECK aborts the process; the model records it in `crashed`,  *)
(* after which nothing happens.                                            *)
(***************************************************************************)
EXTENDS Integers, Sequences, FiniteSets, Functions

CONSTANTS
    Keys,              \* keys callers pass in
    Mix,               \* Hash64NumWithSeed, see BloomFilter
    InitialBitSize,    \* constructor argument initial_bit_size
    InitialCutoffSize  \* constructor argument initial_cutoff_size

ASSUME InitialBitSize \in Nat \ {0} /\ InitialCutoffSize \in Nat \ {0}

VARIABLES
    instances,     \* instances_: a sequence of [bf, cutoff_size]
    num_inserts,   \* num_inserts_
    crashed,       \* a CHECK has failed and the process has aborted
    inserted       \* history: the keys Insert was called on since Clear

vars == <<instances, num_inserts, crashed, inserted>>

BF == INSTANCE BloomFilter

\* The constructor's single instance.
FirstInstance ==
    [bf |-> BF!New(InitialBitSize, InitialCutoffSize), cutoff_size |-> InitialCutoffSize]

Last == instances[Len(instances)]

\* The sums over a sequence of instances that the loops of Insert and
\* BitSize() compute: their cutoffs and their bit sizes.
CapacityOf(seq) == SumFunction([i \in DOMAIN seq |-> seq[i].cutoff_size])
BitSizeOf(seq)  == SumFunction([i \in DOMAIN seq |-> BF!BitSize(seq[i].bf)])

\* The instance Insert appends when the last one is full.
GrownInstance ==
    LET capacity == CapacityOf(instances)
        bit_size == BitSizeOf(instances)
    IN  [bf |-> BF!New(bit_size, capacity), cutoff_size |-> capacity]

\* A bug class for Contains: the reverse loop stops one instance early and
\* never looks at the first filter.
ContainsSkipsFirst(k) ==
    \E i \in 2 .. Len(instances) : BF!Contains(instances[i].bf, k)

\* Contains(key): some instance contains it (searched last to first).
Contains(k) == \E i \in 1 .. Len(instances) : BF!Contains(instances[i].bf, k)

\* BitSize().
BitSize == BitSizeOf(instances)

-----------------------------------------------------------------------------
Init ==
    /\ instances = <<FirstInstance>>
    /\ num_inserts = 0
    /\ crashed = FALSE
    /\ inserted = {}

\* Insert(key) of a key some instance already contains: returns false.
InsertExisting(k) ==
    /\ ~crashed
    /\ Contains(k)
    /\ inserted' = inserted \cup {k}
    /\ UNCHANGED <<instances, num_inserts, crashed>>

\* A bug class for InsertNew: the fullness test is `>` instead of `==`,
\* so the last filter takes one key past its cutoff.
InsertGrowsLate(k) ==
    LET full   == BF!NumElements(Last.bf) > Last.cutoff_size
        grown  == IF full THEN Append(instances, GrownInstance) ELSE instances
        res    == BF!Insert(grown[Len(grown)].bf, k)
    IN  /\ ~crashed
        /\ ~Contains(k)
        /\ IF BF!NumElements(Last.bf) > Last.cutoff_size \/ ~res.inserted
           THEN /\ crashed' = TRUE
                /\ UNCHANGED <<instances, num_inserts, inserted>>
           ELSE /\ instances' = [grown EXCEPT ![Len(grown)].bf = res.filter]
                /\ num_inserts' = num_inserts + 1
                /\ inserted' = inserted \cup {k}
                /\ UNCHANGED crashed

\* A bug class for InsertNew: after appending the new instance, `last`
\* is not re-pointed at it, and the key goes into the full one.
InsertIntoStaleLast(k) ==
    LET full   == BF!NumElements(Last.bf) = Last.cutoff_size
        grown  == IF full THEN Append(instances, GrownInstance) ELSE instances
        target == Len(instances)
        res    == BF!Insert(grown[target].bf, k)
    IN  /\ ~crashed
        /\ ~Contains(k)
        /\ IF BF!NumElements(Last.bf) > Last.cutoff_size \/ ~res.inserted
           THEN /\ crashed' = TRUE
                /\ UNCHANGED <<instances, num_inserts, inserted>>
           ELSE /\ instances' = [grown EXCEPT ![target].bf = res.filter]
                /\ num_inserts' = num_inserts + 1
                /\ inserted' = inserted \cup {k}
                /\ UNCHANGED crashed

\* Insert(key) of a key no instance contains: CHECK_LE on the last
\* instance, grow if it is full, then CHECK that the last filter's Insert
\* set a new bit.
InsertNew(k) ==
    LET full   == BF!NumElements(Last.bf) = Last.cutoff_size
        grown  == IF full THEN Append(instances, GrownInstance) ELSE instances
        res    == BF!Insert(grown[Len(grown)].bf, k)
    IN  /\ ~crashed
        /\ ~Contains(k)
        /\ IF BF!NumElements(Last.bf) > Last.cutoff_size \/ ~res.inserted
           THEN /\ crashed' = TRUE
                /\ UNCHANGED <<instances, num_inserts, inserted>>
           ELSE /\ instances' = [grown EXCEPT ![Len(grown)].bf = res.filter]
                /\ num_inserts' = num_inserts + 1
                /\ inserted' = inserted \cup {k}
                /\ UNCHANGED crashed

\* A bug class for Clear: num_inserts_ is not reset.
ClearKeepsCount ==
    /\ ~crashed
    /\ instances' = <<[Head(instances) EXCEPT !.bf = BF!Clear(@)]>>
    /\ inserted' = {}
    /\ UNCHANGED <<num_inserts, crashed>>

\* Clear(): keep only the first instance, cleared.
Clear ==
    /\ ~crashed
    /\ instances' = <<[Head(instances) EXCEPT !.bf = BF!Clear(@)]>>
    /\ num_inserts' = 0
    /\ inserted' = {}
    /\ UNCHANGED crashed

Next ==
    \/ \E k \in Keys : InsertExisting(k) \/ InsertNew(k)
    \/ Clear

Spec == Init /\ [][Next]_vars

-----------------------------------------------------------------------------
TypeOK ==
    /\ instances \in Seq([bf : BF!FilterType(64, Cardinality(Keys)),
                          cutoff_size : Nat \ {0}])
    /\ Len(instances) >= 1
    /\ num_inserts \in 0 .. Cardinality(Keys)
    /\ crashed \in BOOLEAN
    /\ inserted \subseteq Keys

\* No false negatives across the chain: every key Insert was called on since
\* the last Clear, whether it went into the last filter or was found in an
\* earlier one, is reported by Contains.
NoFalseNegative == \A k \in inserted : Contains(k)

\* The CHECK_LE(NumElements, cutoff) and CHECK(Insert) of Insert never fail.
NoCheckFailure == ~crashed

\* Instances are filled in order: every instance but the last holds exactly
\* cutoff_size_ keys, the last at most that many, and num_inserts_ is the
\* sum of the instances' counts (so growth happens exactly at the cutoff).
FilledInOrder ==
    /\ \A i \in 1 .. Len(instances) - 1 :
          BF!NumElements(instances[i].bf) = instances[i].cutoff_size
    /\ BF!NumElements(Last.bf) <= Last.cutoff_size
    /\ num_inserts = SumFunction([i \in DOMAIN instances |-> BF!NumElements(instances[i].bf)])

=============================================================================
