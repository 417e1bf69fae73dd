------------------------------ MODULE LruCache ------------------------------
(***************************************************************************)
(* What a bounded LRU map promises, stated without the list and hash map   *)
(* of src/data-struct/lru_map.h: a partial function from keys to values,   *)
(* and a strict order "older" on its keys saying which was used less       *)
(* recently.  Putting or touching a key makes it the most recent; putting  *)
(* a new key into a full cache first removes the least recently used one   *)
(* and reports its value.                                                  *)
(***************************************************************************)
EXTENDS Naturals, FiniteSets

CONSTANTS Keys, Values, NoValue, Capacities

VARIABLES entries,   \* the mapping, a function on the keys present
          older,     \* <<a, b>> \in older: a was used less recently than b
          evicted,   \* the value last reported as evicted
          capacity

vars == <<entries, older, evicted, capacity>>

Present == DOMAIN entries

\* The key present that every other key present was used after.
LeastRecent == CHOOSE x \in Present : \A y \in Present \ {x} : <<x, y>> \in older

\* The order after key k (present, or being added) becomes the most recent.
MadeRecent(k, keys) ==
    {p \in older : k \notin {p[1], p[2]}} \cup {<<x, k>> : x \in keys \ {k}}

\* The order restricted to the keys that remain.
Without(k) == {p \in older : k \notin {p[1], p[2]}}

Init == /\ entries = [x \in {} |-> NoValue]
        /\ older = {}
        /\ evicted = NoValue
        /\ capacity \in Capacities

SetCapacity(c) == /\ Present = {}
                  /\ capacity' = c
                  /\ UNCHANGED <<entries, older, evicted>>

Clear == /\ entries' = [x \in {} |-> NoValue]
         /\ older' = {}
         /\ UNCHANGED <<evicted, capacity>>

PutExisting(k, v) == /\ k \in Present
                     /\ entries' = [entries EXCEPT ![k] = v]
                     /\ older' = MadeRecent(k, Present)
                     /\ UNCHANGED <<evicted, capacity>>

PutNew(k, v) ==
    /\ k \notin Present
    /\ Cardinality(Present) < capacity
    /\ entries' = [x \in Present \cup {k} |-> IF x = k THEN v ELSE entries[x]]
    /\ older' = MadeRecent(k, Present \cup {k})
    /\ UNCHANGED <<evicted, capacity>>

PutEvicting(k, v) ==
    LET victim == LeastRecent
        keep   == Present \ {victim}
    IN /\ k \notin Present
       /\ Present # {}
       /\ Cardinality(Present) = capacity
       /\ entries' = [x \in keep \cup {k} |-> IF x = k THEN v ELSE entries[x]]
       /\ older' = {p \in MadeRecent(k, keep \cup {k}) : victim \notin {p[1], p[2]}}
       /\ evicted' = entries[victim]
       /\ UNCHANGED capacity

Use(k) == /\ k \in Present
          /\ older' = MadeRecent(k, Present)
          /\ UNCHANGED <<entries, evicted, capacity>>

Erase(k) == /\ k \in Present
            /\ entries' = [x \in Present \ {k} |-> entries[x]]
            /\ older' = Without(k)
            /\ UNCHANGED <<evicted, capacity>>

EvictOldest == /\ Present # {}
               /\ entries' = [x \in Present \ {LeastRecent} |-> entries[x]]
               /\ older' = Without(LeastRecent)
               /\ evicted' = entries[LeastRecent]
               /\ UNCHANGED capacity

Next == \/ \E c \in Capacities : SetCapacity(c)
        \/ Clear
        \/ EvictOldest
        \/ \E k \in Keys : Use(k) \/ Erase(k)
        \/ \E k \in Keys, v \in Values :
              PutExisting(k, v) \/ PutNew(k, v) \/ PutEvicting(k, v)

Spec == Init /\ [][Next]_vars
=============================================================================
