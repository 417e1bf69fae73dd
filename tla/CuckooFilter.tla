---------------------------- MODULE CuckooFilter ----------------------------
(***************************************************************************)
(* The cuckoo filter (class CuckooFilter,                                  *)
(* src/data-struct/cuckoo-filter/cuckoo_filter.h) over its packed table    *)
(* (module SingleTable).                                                   *)
(*                                                                         *)
(* A key enters the filter only through the 64-bit re-hash h that         *)
(* GetIndexAndTag takes of it: the high half gives the bucket, the low     *)
(* half the tag.  The model therefore takes as inputs a high half hi (its  *)
(* value modulo NumBuckets is all that is used) and a low half lo from the *)
(* small set HashLows.  The structure is single-threaded, so each public   *)
(* call is one atomic action; the cuckoo-kick loop of AddInternal is the   *)
(* recursive operator AddLoop, and the slots the table's random generator  *)
(* picks for the kicks are chosen nondeterministically.                    *)
(***************************************************************************)
EXTENDS Integers, FiniteSets, Bags, Bitwise, TLC

CONSTANTS
    ExpectedNumElements, \* constructor argument expected_num_elements
    BitsPerElement,      \* constructor argument bits_per_element
    MaxCuckooCount,      \* kMaxCuckooCount (500 in the code)
    HashLows             \* low 32-bit halves of the re-hash the model feeds in

ASSUME ExpectedNumElements \in Nat \ {0}
ASSUME MaxCuckooCount \in Nat \ {0}
ASSUME HashLows \subseteq Nat

VARIABLES
    data,          \* table_ : the packed bytes of every bucket
    num_elements,  \* num_elements_
    last_victim    \* last_victim_ : [index, tag, used]

vars == <<data, num_elements, last_victim>>

(***************************************************************************)
(* Constructor: num_buckets = upperpower2(ceil(n / 4)), doubled when the   *)
(* fill fraction (n / 4) / num_buckets is >= 0.96, i.e. 25n >= 96 nb.      *)
(***************************************************************************)
Associativity == 4   \* kAssociativity

UpperPower2(x) == CHOOSE p \in {2^e : e \in 0 .. 30} : p >= x /\ (p = 1 \/ p \div 2 < x)

NumBucketsFor(n) ==
    LET nb == UpperPower2((n + Associativity - 1) \div Associativity)
    IN  IF 25 * n >= 96 * nb THEN 2 * nb ELSE nb

NumBuckets == NumBucketsFor(ExpectedNumElements)

Table == INSTANCE SingleTable WITH
            NumBuckets <- NumBuckets, TagsPerBucket <- Associativity,
            BitsPerTag <- BitsPerElement

Buckets == Table!Buckets
Slots   == Table!Slots

\* LastVictim(): index 0, tag 0, unused.  Where the code only clears
\* last_victim_.used, the index and tag it leaves behind are never read
\* again before the next victim overwrites them, so the model resets the
\* whole record to this value (one state instead of one per stale value).
NoVictim == [index |-> 0, tag |-> 0, used |-> FALSE]

(***************************************************************************)
(* Hashing of a key into (bucket, tag).                                    *)
(***************************************************************************)
BucketIndexHash(val) == val % NumBuckets

\* The tag is never 0: 0 marks an empty slot.
TagHash(val) ==
    LET tag == val % 2^BitsPerElement   \* val & ((1ULL << bits) - 1)
    IN  tag + (IF tag = 0 THEN 1 ELSE 0)

HashHighs == Buckets   \* hi % NumBuckets ranges over exactly these

(***************************************************************************)
(* AltIndex(index, tag) = ((uint32)(index ^ (tag * 0x5bd1e995))) %        *)
(* num_buckets.  num_buckets is a power of two dividing 2^32, so only the *)
(* low bits of the 32-bit product matter and (tag * M) % 2^32 % nb equals *)
(* (tag * (M % nb)) % nb; this keeps the product inside TLC's integers.   *)
(***************************************************************************)
MurmurConst == 1540483477   \* 0x5bd1e995

AltIndex(index, tag) ==
    BucketIndexHash(index ^^ ((tag * (MurmurConst % NumBuckets)) % NumBuckets))

(***************************************************************************)
(* AddInternal's loop: count runs 0 .. kMaxCuckooCount-1; the first try   *)
(* does not kick; a failed kicking try carries the evicted tag on to its   *)
(* alternate bucket.  kicks[count] is the slot the generator picks.        *)
(* Result: the table, whether the tag was placed, and the tag and bucket   *)
(* in hand when the loop ran out.                                          *)
(***************************************************************************)
\* A bug class for AddLoop: the evicted tag is not carried on (curtag is
\* left as it was), so the kicked-out tag is lost.
RECURSIVE AddLoopDropsEvicted(_, _, _, _, _)
AddLoopDropsEvicted(d, curindex, curtag, count, kicks) ==
    IF count = MaxCuckooCount
    THEN [data |-> d, placed |-> FALSE, index |-> curindex, tag |-> curtag]
    ELSE LET kickout == count > 0
             ins     == Table!InsertTagToBucket(d, curindex, curtag, kickout,
                                                IF kickout THEN kicks[count] ELSE 0)
         IN  IF ins.ok
             THEN [data |-> ins.data, placed |-> TRUE, index |-> curindex, tag |-> curtag]
             ELSE AddLoopDropsEvicted(ins.data, AltIndex(curindex, curtag), curtag,
                                      count + 1, kicks)

RECURSIVE AddLoop(_, _, _, _, _)
AddLoop(d, curindex, curtag, count, kicks) ==
    IF count = MaxCuckooCount
    THEN [data |-> d, placed |-> FALSE, index |-> curindex, tag |-> curtag]
    ELSE LET kickout == count > 0
             ins     == Table!InsertTagToBucket(d, curindex, curtag, kickout,
                                                IF kickout THEN kicks[count] ELSE 0)
             nexttag == IF kickout THEN ins.oldtag ELSE curtag
         IN  IF ins.ok
             THEN [data |-> ins.data, placed |-> TRUE, index |-> curindex, tag |-> curtag]
             ELSE AddLoop(ins.data, AltIndex(curindex, nexttag), nexttag, count + 1, kicks)

KickChoices == [1 .. MaxCuckooCount - 1 -> Slots]
NoKicks == [c \in 1 .. MaxCuckooCount - 1 |-> 0]

\* The kick slots only matter when the loop gets to kick, i.e. when bucket
\* i and the alternate bucket of tag are both full; otherwise one choice
\* stands for all (this prunes identical successor states, nothing else).
KicksFor(d, i, tag) ==
    IF /\ Table!FirstSlotWith(d, i, 0) = -1
       /\ Table!FirstSlotWith(d, AltIndex(i, tag), 0) = -1
    THEN KickChoices
    ELSE {NoKicks}

\* AddInternal(bucket_index, tag) applied to table d, count n and victim v:
\* the new values of the three.
AddInternal(d, n, v, bucket_index, tag, kicks) ==
    LET res == AddLoop(d, bucket_index, tag, 0, kicks)
    IN  IF res.placed
        THEN [data |-> res.data, num |-> n + 1, victim |-> v]
        ELSE [data |-> res.data, num |-> n,
              victim |-> [index |-> res.index, tag |-> res.tag, used |-> TRUE]]

(***************************************************************************)
(* Contains(key).                                                          *)
(***************************************************************************)
Contains(hi, lo) ==
    LET i1  == BucketIndexHash(hi)
        tag == TagHash(lo)
        i2  == AltIndex(i1, tag)
    IN  \/ /\ last_victim.used
           /\ tag = last_victim.tag
           /\ last_victim.index \in {i1, i2}
        \/ Table!FindTagInBuckets(data, i1, i2, tag)

-----------------------------------------------------------------------------
(***************************************************************************)
(* Actions                                                                 *)
(***************************************************************************)
Init ==
    /\ data = Table!EmptyTable
    /\ num_elements = 0
    /\ last_victim = NoVictim

\* Insert(key).  With a victim pending it returns false and changes nothing
\* (a stuttering step, so it is not an action of its own).  The over-
\* capacity warning only logs.  Kick choices with the same outcome give one
\* successor.
Insert(hi, lo) ==
    /\ ~last_victim.used
    /\ \E r \in {AddInternal(data, num_elements, last_victim,
                             BucketIndexHash(hi), TagHash(lo), kicks) :
                 kicks \in KicksFor(data, BucketIndexHash(hi), TagHash(lo))} :
             /\ data' = r.data
             /\ num_elements' = r.num
             /\ last_victim' = r.victim

\* TryEliminateVictim: after a tag was removed from the table, clear the
\* victim flag and re-add the pending victim.
TryEliminateVictim(d, n, kicks) ==
    IF last_victim.used
    THEN AddInternal(d, n, NoVictim,
                     last_victim.index, last_victim.tag, kicks)
    ELSE [data |-> d, num |-> n, victim |-> last_victim]

\* A bug class for DeleteVictim: the branch copies the `--num_elements_` of
\* the two table branches, though the victim was never counted.
DeleteVictimCounted(i1, i2, tag) ==
    /\ last_victim.used
    /\ tag = last_victim.tag
    /\ last_victim.index \in {i1, i2}
    /\ last_victim' = NoVictim
    /\ num_elements' = num_elements - 1
    /\ UNCHANGED data

\* Delete's third branch: the key's fingerprint is the pending victim, which
\* is dropped (num_elements_ never counted it).
DeleteVictim(i1, i2, tag) ==
    /\ last_victim.used
    /\ tag = last_victim.tag
    /\ last_victim.index \in {i1, i2}
    /\ last_victim' = NoVictim
    /\ UNCHANGED <<data, num_elements>>

\* Delete(key): first bucket, then alternate bucket, then the victim slot.
\* Returning false (tag found nowhere) changes nothing and is a stutter.
Delete(hi, lo) ==
    LET i1  == BucketIndexHash(hi)
        tag == TagHash(lo)
        i2  == AltIndex(i1, tag)
        del1 == Table!DeleteTagFromBucket(data, i1, tag)
        del2 == Table!DeleteTagFromBucket(data, i2, tag)
    IN  /\ Assert(i1 = AltIndex(i2, tag), "CHECK_EQ(bucket_index1, AltIndex(...))")
        /\ \/ /\ del1.ok \/ del2.ok
              /\ LET d == IF del1.ok THEN del1.data ELSE del2.data
                 IN  \E r \in {TryEliminateVictim(d, num_elements - 1, kicks) :
                               kicks \in IF last_victim.used
                                         THEN KicksFor(d, last_victim.index, last_victim.tag)
                                         ELSE {NoKicks}} :
                           /\ data' = r.data
                           /\ num_elements' = r.num
                           /\ last_victim' = r.victim
           \/ /\ ~del1.ok /\ ~del2.ok
              /\ DeleteVictim(i1, i2, tag)

\* Clear().
Clear ==
    /\ data' = Table!EmptyTable
    /\ num_elements' = 0
    /\ last_victim' = NoVictim

Next ==
    \/ \E hi \in HashHighs, lo \in HashLows : Insert(hi, lo)
    \/ \E hi \in HashHighs, lo \in HashLows : Delete(hi, lo)
    \/ Clear

Spec == Init /\ [][Next]_vars

-----------------------------------------------------------------------------
(***************************************************************************)
(* What the filter stores: each non-empty slot, and the pending victim,    *)
(* stands for the fingerprint (tag, bucket pair) of some inserted key.     *)
(* Since AltIndex is an involution, the pair {i, AltIndex(i, tag)} is the  *)
(* same from either of its buckets; the lower bucket names it.             *)
(***************************************************************************)
Fingerprint(i, tag) ==
    LET j == AltIndex(i, tag) IN <<tag, IF i <= j THEN i ELSE j>>

InputFingerprints ==
    {Fingerprint(BucketIndexHash(hi), TagHash(lo)) : hi \in HashHighs, lo \in HashLows}

\* The bag of fingerprints held by the table and the victim slot.  Slots
\* are paired with their fingerprints in a set, which is built once, rather
\* than a function, whose entries would be recomputed at every lookup.
StoredBag ==
    LET full     == {s \in Buckets \X Slots : Table!ReadTag(data, s[1], s[2]) # 0}
        slotFps  == {<<s, Fingerprint(s[1], Table!ReadTag(data, s[1], s[2]))>> : s \in full}
        victimFp == IF last_victim.used
                    THEN {Fingerprint(last_victim.index, last_victim.tag)} ELSE {}
    IN  [f \in {p[2] : p \in slotFps} \cup victimFp |->
            Cardinality({p \in slotFps : p[2] = f}) + (IF f \in victimFp THEN 1 ELSE 0)]

-----------------------------------------------------------------------------
(***************************************************************************)
(* Properties                                                              *)
(***************************************************************************)
TypeOK ==
    /\ data \in [Buckets -> [Table!Bytes -> 0 .. 255]]
    /\ num_elements \in Nat
    /\ last_victim \in [index : Buckets, tag : 0 .. Table!TagMask, used : BOOLEAN]

\* Contains (victim check, then the hasvalue bit trick over both buckets)
\* answers true exactly for the fingerprints the table and the victim slot
\* hold: no false negative, and no positive for a fingerprint not stored.
ContainsMatchesStored ==
    LET stored == StoredBag
    IN  \A hi \in HashHighs, lo \in HashLows :
            Contains(hi, lo) <=> BagIn(Fingerprint(BucketIndexHash(hi), TagHash(lo)), stored)

Abs == INSTANCE CuckooSet WITH stored <- StoredBag, Fingerprints <- InputFingerprints

\* The filter implements the fingerprint multiset CuckooSet: every Insert
\* adds exactly its fingerprint (the kick loop moves tags between their two
\* buckets and the victim slot without losing or changing any), every
\* successful Delete removes exactly one copy of its fingerprint.

CuckooSetRefinement == Abs!Spec

=============================================================================
