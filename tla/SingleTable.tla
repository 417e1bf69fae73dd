---------------------------- MODULE SingleTable ----------------------------
(***************************************************************************)
(* The packed tag storage of the cuckoo filter (class SingleTable,         *)
(* src/data-struct/cuckoo-filter/single_table.h).                          *)
(*                                                                         *)
(* The table is NumBuckets buckets of TagsPerBucket tags, each tag         *)
(* BitsPerTag bits wide, packed into bytes.  A table value `data` maps a   *)
(* bucket index to the bytes of that bucket (a function from byte offset   *)
(* to 0..255).  The code keeps all buckets in one flat byte array and      *)
(* addresses bucket i at data_ + i * bytes_per_bucket_; a function per     *)
(* bucket abstracts that address arithmetic and nothing else.  Multi-byte  *)
(* words are read little-endian, as the code asserts of its host.          *)
(*                                                                         *)
(* Every operation is a pure operator over a table value: the module that  *)
(* owns the table (CuckooFilter) holds it in a variable.  The kick-out     *)
(* slot, chosen by the table's Mersenne-Twister generator, is an argument  *)
(* `r` that the caller chooses nondeterministically.                       *)
(***************************************************************************)
EXTENDS Integers, FiniteSets, Bitwise, TLC

CONSTANTS
    NumBuckets,     \* num_buckets_
    TagsPerBucket,  \* tags_per_bucket_
    BitsPerTag      \* bits_per_tag_

\* Widths ReadTag/WriteTag handle (32 is left out: TLC integers are 32-bit
\* signed, so a 32-bit mask is not representable).
ASSUME BitsPerTag \in {2, 4, 8, 12, 16}
ASSUME NumBuckets \in Nat \ {0} /\ TagsPerBucket \in Nat \ {0}

Buckets == 0 .. NumBuckets - 1
Slots   == 0 .. TagsPerBucket - 1

\* bytes_per_bucket_ and tag_mask_ (constructor initialisers).
BytesPerBucket == (BitsPerTag * TagsPerBucket + 7) \div 8
TagMask        == 2^BitsPerTag - 1
Bytes          == 0 .. BytesPerBucket - 1

\* The table the constructor allocates and memset()s, and the one Clear()
\* leaves behind.
EmptyTable == [i \in Buckets |-> [k \in Bytes |-> 0]]

\* Shifts and masks by constants, in arithmetic: x >> s, and x & ~(2^s - 1)
\* (the &= 0xf0 / &= 0xf000 that keep the high bits of a byte or word).
Shr(x, s) == x \div 2^s
KeepHigh(x, s) == (x \div 2^s) * 2^s

\* The uint16 at byte offset o of a bucket, and its store (little-endian).
Word16(p, o) == p[o] + 256 * p[o + 1]
SetWord16(p, o, w) == [p EXCEPT ![o] = w % 256, ![o + 1] = w \div 256]

(***************************************************************************)
(* ReadTag(i, j): the width-specific extraction, then `& tag_mask_`        *)
(* (tag_mask_ is 2^bits - 1, so the & is a remainder).                     *)
(***************************************************************************)
ReadTag(data, i, j) ==
    LET p   == data[i]
        raw == CASE BitsPerTag = 2  -> Shr(p[0], j * 2)
                 [] BitsPerTag = 4  -> Shr(p[j \div 2], (j % 2) * 4)
                 [] BitsPerTag = 8  -> p[j]
                 [] BitsPerTag = 12 -> Shr(Word16(p, j + j \div 2), (j % 2) * 4)
                 [] BitsPerTag = 16 -> Word16(p, 2 * j)
    IN  raw % (TagMask + 1)

(***************************************************************************)
(* WriteTag(i, j, tag): the tag is masked, then stored without touching    *)
(* the sibling tags -- except for 2-bit tags, where the code ORs the tag   *)
(* into the byte and never clears the bits already there.  The masks that  *)
(* keep the siblings are written as arithmetic; the OR of the 2-bit case   *)
(* is a real OR.                                                           *)
(***************************************************************************)
WriteTag(data, i, j, newtag) ==
    LET p   == data[i]
        tag == newtag % (TagMask + 1)
        q   == CASE BitsPerTag = 2  ->
                      [p EXCEPT ![0] = @ | (tag * 2^(2 * j))]
                 [] BitsPerTag = 4 /\ j % 2 = 0 ->
                      [p EXCEPT ![j \div 2] = KeepHigh(@, 4) + tag]
                 [] BitsPerTag = 4 /\ j % 2 = 1 ->
                      [p EXCEPT ![j \div 2] = (@ % 16) + tag * 16]
                 [] BitsPerTag = 8 ->
                      [p EXCEPT ![j] = tag]
                 [] BitsPerTag = 12 /\ j % 2 = 0 ->
                      SetWord16(p, j + j \div 2, KeepHigh(Word16(p, j + j \div 2), 12) + tag)
                 [] BitsPerTag = 12 /\ j % 2 = 1 ->
                      SetWord16(p, j + j \div 2, (Word16(p, j + j \div 2) % 16) + tag * 16)
                 [] BitsPerTag = 16 ->
                      SetWord16(p, 2 * j, tag)
    IN  [data EXCEPT ![i] = q]

(***************************************************************************)
(* The haszeroW/hasvalueW bit tricks of util.h, used by FindTagInBucket(s) *)
(* when a bucket holds 4 tags of 4, 8, 12 or 16 bits.  The 64-bit word     *)
(* read at the bucket is split into its 4 lanes of W bits (the macros'     *)
(* masks keep only those 4*W bits, and a subtraction borrows only upward,  *)
(* so the bytes read past the bucket never matter).  x ^ (0x0101.. * n)    *)
(* puts n into every lane; x - 0x0101.. is done lane by lane with the      *)
(* borrow running from lane 0 upward; the result is non-zero iff some lane *)
(* has its top bit set in the difference and clear in x.                   *)
(***************************************************************************)
LaneTop == 2^(BitsPerTag - 1)

\* A bug class for HasZeroFrom: the `& ~x` term dropped, so a lane whose
\* value already has its top bit set counts as zero.
RECURSIVE HasZeroFromNoMask(_, _, _)
HasZeroFromNoMask(x, k, borrow) ==
    IF k = TagsPerBucket THEN FALSE
    ELSE LET d    == x[k] - 1 - borrow
             diff == IF d < 0 THEN d + 2^BitsPerTag ELSE d
         IN  \/ diff >= LaneTop
             \/ HasZeroFromNoMask(x, k + 1, IF d < 0 THEN 1 ELSE 0)

RECURSIVE HasZeroFrom(_, _, _)
HasZeroFrom(x, k, borrow) ==
    IF k = TagsPerBucket THEN FALSE
    ELSE LET d    == x[k] - 1 - borrow
             diff == IF d < 0 THEN d + 2^BitsPerTag ELSE d
         IN  \/ diff >= LaneTop /\ x[k] < LaneTop
             \/ HasZeroFrom(x, k + 1, IF d < 0 THEN 1 ELSE 0)

HasValue(data, i, n) ==
    HasZeroFrom([k \in Slots |-> ReadTag(data, i, k) ^^ n], 0, 0)

UsesBitTrick == TagsPerBucket = 4 /\ BitsPerTag \in {4, 8, 12, 16}

\* FindTagInBucket(i, tag): the bit trick, or a scan of the slots.
FindTagInBucket(data, i, tag) ==
    IF UsesBitTrick THEN HasValue(data, i, tag)
    ELSE \E j \in Slots : ReadTag(data, i, j) = tag

\* FindTagInBuckets(i1, i2, tag).
FindTagInBuckets(data, i1, i2, tag) ==
    IF UsesBitTrick THEN HasValue(data, i1, tag) \/ HasValue(data, i2, tag)
    ELSE \E j \in Slots : ReadTag(data, i1, j) = tag \/ ReadTag(data, i2, j) = tag

\* The first slot (lowest j) of bucket i that holds `tag`, or -1: the
\* `for (j = 0; j < kTagsPerBucket; j++)` scans of the code.
RECURSIVE FirstSlotFrom(_, _, _, _)
FirstSlotFrom(data, i, tag, j) ==
    IF j = TagsPerBucket THEN -1
    ELSE IF ReadTag(data, i, j) = tag THEN j
    ELSE FirstSlotFrom(data, i, tag, j + 1)

FirstSlotWith(data, i, tag) == FirstSlotFrom(data, i, tag, 0)

(***************************************************************************)
(* DeleteTagFromBucket(i, tag): zero the first slot holding the tag, after *)
(* CHECKing that FindTagInBucket (the bit trick) finds it too.             *)
(* Result: [ok, data].                                                     *)
(***************************************************************************)
DeleteTagFromBucket(data, i, tag) ==
    LET j == FirstSlotWith(data, i, tag)
    IN  IF j = -1 THEN [ok |-> FALSE, data |-> data]
        ELSE LET checked == Assert(FindTagInBucket(data, i, tag),
                                   "CHECK(FindTagInBucket(i, tag))")
             IN  [ok |-> checked, data |-> WriteTag(data, i, j, 0)]

(***************************************************************************)
(* InsertTagToBucket(i, tag, kickout, oldtag): write into the first empty  *)
(* slot; if there is none and kickout is set, overwrite slot r and return  *)
(* its old tag.  Result: [ok, data, oldtag].                               *)
(***************************************************************************)
InsertTagToBucket(data, i, tag, kickout, r) ==
    LET j == FirstSlotWith(data, i, 0)
    IN  CASE j # -1 ->
               [ok |-> TRUE, data |-> WriteTag(data, i, j, tag), oldtag |-> 0]
          [] kickout ->
               [ok |-> FALSE, data |-> WriteTag(data, i, r, tag),
                oldtag |-> ReadTag(data, i, r)]
          [] OTHER ->
               [ok |-> FALSE, data |-> data, oldtag |-> 0]

=============================================================================
