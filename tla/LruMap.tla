------------------------------- MODULE LruMap -------------------------------
(***************************************************************************)
(* LruMap<KeyType, ValueType> of src/data-struct/lru_map.h: a std::list of *)
(* <key, value> pairs with the most recently used at its front, a          *)
(* hash_map from each key to its list iterator, and capacity_.  An         *)
(* iterator is identified with the key of the node it points to, so map_   *)
(* is the set of keys it holds.  Every public method that changes state is *)
(* one atomic action (the class is not thread safe; callers serialise).    *)
(* A failed CHECK aborts the process: crashed becomes TRUE and nothing     *)
(* happens after it.  LruSet<KeyType> (lru_set.h) is this map with the     *)
(* single value TRUE.                                                      *)
(***************************************************************************)
EXTENDS Naturals, Sequences, SequencesExt, FiniteSets

CONSTANTS Keys, Values, NoValue,
          Capacities   \* the capacities a constructor or SetCapacity is given

VARIABLES list,      \* list_, front first: a sequence of <<key, value>>
          map,       \* the keys of map_
          capacity,  \* capacity_
          evicted,   \* the last value written through an evicted_value pointer
          crashed    \* a CHECK has failed

vars == <<list, map, capacity, evicted, crashed>>

\* The position in list_ of the node holding key k (0 if there is none).
Node(k) == IF \E i \in 1..Len(list) : list[i][1] = k
           THEN CHOOSE i \in 1..Len(list) : list[i][1] = k
           ELSE 0

\* The read-only calls: GetWithoutTouch (NoValue when it returns false),
\* and OldestKey and OldestValue of a non-empty map.
GetWithoutTouch(k) == IF k \in map THEN list[Node(k)][2] ELSE NoValue
OldestKey == Last(list)[1]
OldestValue == Last(list)[2]

\* Either the CHECKs of a call hold and it makes its changes, or one fails.
Checked(ok, l, m, e) ==
    IF ok THEN /\ list' = l /\ map' = m /\ evicted' = e
               /\ UNCHANGED <<capacity, crashed>>
          ELSE /\ crashed' = TRUE
               /\ UNCHANGED <<list, map, capacity, evicted>>

\* LruMap() takes int64 max (a capacity larger than Keys stands for it), and
\* LruMap(capacity) any capacity.
Init == /\ list = <<>>
        /\ map = {}
        /\ capacity \in Capacities
        /\ evicted = NoValue
        /\ crashed = FALSE

\* "Use this setter only at initialization time": while the map is empty.
SetCapacity(c) == /\ ~crashed
                  /\ map = {}
                  /\ capacity' = c
                  /\ UNCHANGED <<list, map, evicted, crashed>>

Clear == /\ ~crashed
         /\ list' = <<>>
         /\ map' = {}
         /\ UNCHANGED <<capacity, evicted, crashed>>

\* Mutant: evicts only once map_ is over capacity (> for ==).
PutNewEvictWhenOver(k, v) ==
    LET full == Cardinality(map) > capacity
        some == list # <<>>
        l1   == IF full /\ some THEN Front(list) ELSE list
        m1   == IF full /\ some THEN map \ {OldestKey} ELSE map
        e1   == IF full /\ some THEN OldestValue ELSE evicted
    IN /\ ~crashed
       /\ k \notin map
       /\ Checked(/\ Cardinality(map) <= capacity
                  /\ full => some /\ OldestKey \in map
                  /\ Cardinality(m1 \cup {k}) <= capacity,
                  <<<<k, v>>>> \o l1, m1 \cup {k}, e1)

\* Put of a key map_ does not hold: CHECK_LE, EvictOldest when full (its
\* result CHECKed, its CHECK_EQ on map_.erase), push_front, map_[key], CHECK_LE.
PutNew(k, v) ==
    LET full   == Cardinality(map) = capacity
        some   == list # <<>>
        l1     == IF full /\ some THEN Front(list) ELSE list
        m1     == IF full /\ some THEN map \ {OldestKey} ELSE map
        e1     == IF full /\ some THEN OldestValue ELSE evicted
    IN /\ ~crashed
       /\ k \notin map
       /\ Checked(/\ Cardinality(map) <= capacity
                  /\ full => some /\ OldestKey \in map
                  /\ Cardinality(m1 \cup {k}) <= capacity,
                  <<<<k, v>>>> \o l1, m1 \cup {k}, e1)

\* Mutant: updates the value in place without the splice to the front.
PutExistingNoSplice(k, v) ==
    LET i == Node(k)
    IN /\ ~crashed
       /\ k \in map
       /\ Checked(i # 0 /\ Cardinality(map) <= capacity,
                  [list EXCEPT ![i] = <<k, v>>], map, evicted)

\* Put of a key map_ holds: CHECK the node's key, set its value, splice it
\* to the front, CHECK_LE.
PutExisting(k, v) ==
    LET i == Node(k)
    IN /\ ~crashed
       /\ k \in map
       /\ Checked(i # 0 /\ Cardinality(map) <= capacity,
                  <<<<k, v>>>> \o RemoveAt(list, i), map, evicted)

\* GetWithTouch(key, value) and Touch(key): an absent key changes nothing;
\* a present one is CHECKed and spliced to the front.
GetWithTouch(k) ==
    LET i == Node(k)
    IN /\ ~crashed
       /\ k \in map
       /\ Checked(i # 0, <<list[i]>> \o RemoveAt(list, i), map, evicted)

\* Mutant: erases the list node but leaves the key in map_.
EraseKeepsMapEntry(k) ==
    LET i == Node(k)
    IN /\ ~crashed
       /\ k \in map
       /\ Checked(i # 0, RemoveAt(list, i), map, evicted)

\* Erase(key, value): list_.erase of the node, then map_.erase.
Erase(k) ==
    LET i == Node(k)
    IN /\ ~crashed
       /\ k \in map
       /\ Checked(i # 0, RemoveAt(list, i), map \ {k}, evicted)

\* Mutant: reports the evicted key (.first) instead of its value.
EvictOldestReportsKey ==
    /\ ~crashed
    /\ list # <<>>
    /\ Checked(OldestKey \in map, Front(list), map \ {OldestKey}, OldestKey)

\* EvictOldest(value) on a non-empty map: pop_back, then map_.erase of the
\* back key, whose count is CHECKed to be 1.
EvictOldest ==
    /\ ~crashed
    /\ list # <<>>
    /\ Checked(OldestKey \in map, Front(list), map \ {OldestKey}, OldestValue)

Next == \/ \E c \in Capacities : SetCapacity(c)
        \/ Clear
        \/ EvictOldest
        \/ \E k \in Keys : GetWithTouch(k) \/ Erase(k)
        \/ \E k \in Keys, v \in Values : PutNew(k, v) \/ PutExisting(k, v)

Spec == Init /\ [][Next]_vars

-----------------------------------------------------------------------------
TypeOK == /\ list \in BoundedSeq(Keys \X Values, Cardinality(Keys))
          /\ map \subseteq Keys
          /\ capacity \in Capacities
          /\ evicted \in Values \cup {NoValue}
          /\ crashed \in BOOLEAN

\* CheckInternalCorrectness(): every node of list_ has its key in map_, each
\* key once, and list_ and map_ have the same size, after any sequence of
\* Put, GetWithTouch, Erase, EvictOldest and Clear.
MapMatchesList == /\ map = {list[i][1] : i \in 1..Len(list)}
                  /\ Len(list) = Cardinality(map)

\* The CHECKs of Put and EvictOldest fail only for a map built with (or set
\* to) capacity 0, where the first Put finds map_.size() == capacity_ and
\* EvictOldest has nothing to evict.
CheckFailsOnlyAtZeroCapacity == crashed => capacity = 0

\* A key is older than every key nearer the front of list_.
OlderPairs == LET n == Len(list) IN
    {<<list[p[1]][1], list[p[2]][1]>> :
        p \in {q \in (1..n) \X (1..n) : q[2] < q[1]}}
Cache == INSTANCE LruCache WITH entries <- [k \in map |-> GetWithoutTouch(k)],
                                older <- OlderPairs

\* The list and map implement the abstract LRU cache: the mapping is what
\* GetWithoutTouch returns for each key of map_ with the order OlderPairs,
\* and each Put of a new key into a full map, and each EvictOldest, removes
\* and reports the least recently used entry.
LruRefinesCache == Cache!Spec
=============================================================================
