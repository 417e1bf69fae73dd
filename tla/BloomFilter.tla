---------------------------- MODULE BloomFilter -----------------------------
(***************************************************************************)
(* One Bloom filter (class BloomFilter,                                    *)
(* src/data-struct/bloom-filter/bloom_filter.cc) as a value: a record of   *)
(* its constructor-fixed sizes and its two mutable fields.  Every method   *)
(* is a pure operator from the filter value (and a key) to the new value   *)
(* and the method's result; the modules that own filters hold them in      *)
(* variables.                                                              *)
(*                                                                         *)
(* The bit vector data_ is the set of bit indexes that are 1: index k is   *)
(* bit k % 8 of byte k \div 8, a bijection, so `data_[byte] |= 1 << bit`   *)
(* is adding k and `data_[byte] & (1 << bit)` is membership.               *)
(*                                                                         *)
(* Hash64NumWithSeed(key, hash_keys_[i]) is the constant Mix[key][i]: the *)
(* seeds come from mt19937_64(1000), the same sequence in every filter,    *)
(* so a key has the same i-th mix in every filter; only the modulo by the  *)
(* filter's bit size differs.                                              *)
(***************************************************************************)
EXTENDS Integers, FiniteSets

CONSTANTS
    Keys,   \* the keys callers pass in
    Mix     \* Mix[k][i]: the 64-bit mix of key k under the i-th seed

MaxHashes == 8   \* the clamp of num_hashes

ASSUME Mix \in [Keys -> [0 .. MaxHashes - 1 -> Nat]]

\* byte_size_ and bit_size_: the bit size is rounded up to whole bytes.
ByteSizeFor(bit_size) == (bit_size - 1) \div 8 + 1

\* std::round(bit_size_ * 1. / expected * log(2)), clamped to 1 .. 8.
\* ln 2 is taken to six decimals (693147 / 10^6); round() of a positive
\* value is floor(x + 1/2).
NumHashesFor(bits, expected) ==
    LET n == (2 * bits * 693147 + expected * 1000000) \div (2 * expected * 1000000)
    IN  IF n = 0 THEN 1 ELSE IF n > MaxHashes THEN MaxHashes ELSE n

\* The constructor BloomFilter(bit_size, expected_num_elements).
New(bit_size, expected) ==
    LET bits == ByteSizeFor(bit_size) * 8
    IN  [bit_size    |-> bits,
         num_hashes  |-> NumHashesFor(bits, expected),
         expected    |-> expected,
         data        |-> {},
         num_inserts |-> 0]

\* The bit positions key k maps to: mix % bit_size_ for each hash key.
Indexes(bf, k) == {Mix[k][i] % bf.bit_size : i \in 0 .. bf.num_hashes - 1}

\* Contains(key): every one of its bits is set.
Contains(bf, k) == Indexes(bf, k) \subseteq bf.data

\* Insert(key): set its bits; `inserted` is whether any bit changed.
\* num_inserts_ grows on every call (the `if (inserted)` is commented out).
Insert(bf, k) ==
    [filter   |-> [bf EXCEPT !.data = @ \cup Indexes(bf, k),
                             !.num_inserts = @ + 1],
     inserted |-> ~(Indexes(bf, k) \subseteq bf.data)]

\* Clear(): memset the bits, reset the count.
Clear(bf) == [bf EXCEPT !.data = {}, !.num_inserts = 0]

\* BitSize() and NumElements().
BitSize(bf) == bf.bit_size
NumElements(bf) == bf.num_inserts

\* The values a filter of at most `maxbits` bits can take (for TypeOK).
FilterType(maxbits, maxcount) ==
    [bit_size : 8 .. maxbits, num_hashes : 1 .. MaxHashes, expected : Nat,
     data : SUBSET (0 .. maxbits - 1), num_inserts : 0 .. maxcount]

=============================================================================
