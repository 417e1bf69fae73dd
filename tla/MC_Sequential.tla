---------------------------- MODULE MC_Sequential -----------------------------
(***************************************************************************)
(* The single-threaded components checked in one run: the CuckooFilter of *)
(* cuckoo_filter.h, the CountMinSketch of count_min_sketch.h, the          *)
(* ExpandableBloomFilter of                                                *)
(* expandable_bloom_filter.h, the LruMap of lru_map.h, the conversions of  *)
(* numbers.cc and math_util.h, the string helpers of split.h, join.h and   *)
(* stringpiece.h, the MD5 class of md5.cc, and the FileInputStream and   *)
(* FileOutputStream of src/file.  A behaviour runs one of                  *)
(* them, chosen in the initial state (`running`), while the others stay in *)
(* one initial state, so the state space is the sum of the parts, not     *)
(* their product.                                                          *)
(***************************************************************************)
EXTENDS Integers, Sequences, CuckooFilter
LOCAL SeqExt == INSTANCE SequencesExt

\* ExpectedNumElements, BitsPerElement, MaxCuckooCount and HashLows are
\* the constants of CuckooFilter, which this module extends (so that its
\* refinement of CuckooSet is checked through one INSTANCE, not two).
CONSTANTS k1, k2, k3, v1, v2, NoValue,
          \* the inputs of Numbers and Strings, bound in the .cfg to those of
          \* MC_Numbers and MC_Strings
          ParseCalls, Int32Values, HexValues, MathCalls, Dates,
          Texts, Affixes, Pieces, Joins, KeyValues,
          \* the calls of Numbers and Strings, bound to NumbersCalls and
          \* StringsCalls so that TLC enumerates each once
          NumberCalls, StringCalls

VARIABLES
    running,
    matrix, sum_counts, calls, returned, true_count, clamped,
    instances, num_inserts, crashed, inserted,
    list, map, capacity, evicted, l_crashed,
    n_call, n_out, s_call, s_out, md5, msg, pos,
    fi_file, fi_stream, fi_got, fi_errors, fi_calls, fi_crashed,
    fo_buf, fo_open, fo_disk, fo_sent, fo_accepted, fo_errors, fo_calls, fo_destroyed

cvars == <<matrix, sum_counts, calls, returned, true_count, clamped>>
evars == <<instances, num_inserts, crashed, inserted>>
lvars == <<list, map, capacity, evicted, l_crashed>>
nvars == <<n_call, n_out>>
svars == <<s_call, s_out>>
mvars == <<md5, msg, pos>>
ivars == <<fi_file, fi_stream, fi_got, fi_errors, fi_calls, fi_crashed>>
ovars == <<fo_buf, fo_open, fo_disk, fo_sent, fo_accepted, fo_errors, fo_calls, fo_destroyed>>
fvars == vars   \* CuckooFilter's <<data, num_elements, last_victim>>
allvars == <<running, cvars, evars, lvars, nvars, svars, mvars, ivars, ovars, fvars>>

CmsKeys == {k1, k2, k3}
CmsCol == [k \in CmsKeys |->
             IF k = k2 THEN [r \in 0 .. 1 |-> IF r = 0 THEN 0 ELSE 1]
             ELSE [r \in 0 .. 1 |-> 0]]
EbfKeys == 0 .. 4
EbfMix == [k \in EbfKeys |-> [i \in 0 .. 7 |-> (k * 29 + i * 13 + k * i * 7 + 3) % 61]]

\* The sketch as MC_CountMinSketch configures it: k1 and k3 share both
\* columns, k2 one, and increments 1, -1 and 300 reach both clamps.  The
\* filter takes keys 0..4 and an 8-bit first filter with cutoff 1, so the
\* chain grows to four instances; the mixes (a stand-in for
\* Hash64NumWithSeed) spread over 0..60 so that the modulo by 8, 16 and 32
\* bits differs and false positives happen.
C == INSTANCE CountMinSketch
       WITH Keys <- CmsKeys, Col <- CmsCol, Incs <- {1, -1, 300},
            CellBits <- 8, NumRows <- 2, MemBudgetBytes <- 4, MaxCalls <- 5
E == INSTANCE ExpandableBloomFilter
       WITH Keys <- EbfKeys, Mix <- EbfMix,
            InitialBitSize <- 8, InitialCutoffSize <- 1
\* The map over three keys and two values, with capacities 0 (where Put's
\* CHECK fails), 1, 2 and 4, which exceeds the key count and so stands for
\* the int64 max of the default constructor.
L == INSTANCE LruMap
       WITH Keys <- {k1, k2, k3}, Values <- {v1, v2}, Capacities <- {0, 1, 2, 4},
            crashed <- l_crashed

\* The inputs of MC_Numbers and MC_Strings, read from instances whose own
\* constants play no part in them.
NI == INSTANCE MC_Numbers
        WITH ParseCalls <- {}, Int32Values <- {}, HexValues <- {}, MathCalls <- {},
             Dates <- {}, call <- NoValue, out <- NoValue
SI == INSTANCE MC_Strings
        WITH Texts <- {}, Affixes <- {}, Pieces <- {}, Joins <- {}, KeyValues <- {},
             call <- NoValue, out <- NoValue
MCParseCalls == NI!MCParseCalls
MCInt32Values == NI!MCInt32Values
MCHexValues == NI!MCHexValues
MCMathCalls == NI!MCMathCalls
MCDates == NI!MCDates
MCTexts == SI!MCTexts
MCAffixes == SI!MCAffixes
MCPieces == SI!MCPieces
MCJoins == SI!MCJoins
MCKeyValues == SI!MCKeyValues
N == INSTANCE Numbers WITH call <- n_call, out <- n_out
St == INSTANCE Strings WITH call <- s_call, out <- s_out
NumbersCalls == N!Calls
StringsCalls == St!Calls

\* RFC 1321's test suite (appendix A.5) and a 130-byte message whose
\* padding needs a second block, as bytes with their digests.  Update takes
\* 1, 64 or 128 bytes at a time, so chunks meet the buffer at every offset.
Lower == [i \in 1..26 |-> 96 + i]
Upper == [i \in 1..26 |-> 64 + i]
Decimal == [i \in 1..10 |-> 47 + i]
Tens(n) == SeqExt!FlattenSeq([i \in 1..n |-> Tail(Decimal) \o <<48>>])
MCVectors == {
  [text |-> <<>>, digest |-> <<212, 29, 140, 217, 143, 0, 178, 4, 233, 128, 9, 152, 236, 248, 66, 126>>],
  [text |-> <<97>>, digest |-> <<12, 193, 117, 185, 192, 241, 182, 168, 49, 195, 153, 226, 105, 119, 38, 97>>],
  [text |-> <<97, 98, 99>>, digest |-> <<144, 1, 80, 152, 60, 210, 79, 176, 214, 150, 63, 125, 40, 225, 127, 114>>],
  [text |-> <<109, 101, 115, 115, 97, 103, 101, 32, 100, 105, 103, 101, 115, 116>>,
   digest |-> <<249, 107, 105, 125, 124, 183, 147, 141, 82, 90, 47, 49, 170, 241, 97, 208>>],
  [text |-> Lower, digest |-> <<195, 252, 211, 215, 97, 146, 228, 0, 125, 251, 73, 108, 202, 103, 225, 59>>],
  [text |-> Upper \o Lower \o Decimal,
   digest |-> <<209, 116, 171, 152, 210, 119, 217, 245, 165, 97, 28, 44, 159, 65, 157, 159>>],
  [text |-> Tens(8), digest |-> <<87, 237, 244, 162, 43, 227, 201, 85, 172, 73, 218, 46, 33, 7, 182, 122>>],
  [text |-> Tens(13), digest |-> <<253, 172, 173, 41, 127, 114, 149, 110, 6, 25, 0, 44, 236, 255, 200, 227>>]}
M == INSTANCE Md5 WITH Vectors <- MCVectors, Chunks <- {1, 64, 128}

\* The input stream over a 2-byte buffer, on files whose data bytes are
\* 100 + their offset: lines split across refills, "\r\n" and a bare '\r'
\* at EOF, a leading empty line, and a 3-byte file that ReadGeneric of 2
\* bytes leaves with a 1-byte tail.  Read takes 1 or 3 bytes, so it both
\* fits the buffer and loops; one read(2) may fail.
FiFiles == {<<101, 102, 103>>, <<101, 13, 10, 104>>, <<10, 102, 10, 104, 105>>, <<101, 102, 13>>}
FI == INSTANCE FileInputStream
        WITH Files <- FiFiles, BuffSize <- 2, ReadSizes <- {1, 3}, GenericSizes <- {2},
             LF <- 10, CR <- 13, MaxErrors <- 1, MaxCalls <- 4, MaxSysCalls <- 3,
             file <- fi_file, stream <- fi_stream, got <- fi_got, errors <- fi_errors,
             calls <- fi_calls, crashed <- fi_crashed
\* The output stream over a 2-byte buffer, with writes of 1 byte (which
\* fit) and 3 bytes (which take Write's loop), and write(2) calls that may
\* write one byte or fail once.
FoFaults == {<<>>, <<"short">>, <<"fail">>, <<"short", "fail">>}
FO == INSTANCE FileOutputStream
        WITH BuffSize <- 2, WriteSizes <- {1, 3}, Faults <- FoFaults, MaxErrors <- 1,
             MaxCalls <- 3, buf <- fo_buf, open <- fo_open, disk <- fo_disk, sent <- fo_sent,
             accepted <- fo_accepted, errors <- fo_errors, calls <- fo_calls,
             destroyed <- fo_destroyed

Structs == {"cuckoo", "count_min", "expandable_bloom", "lru", "numbers", "strings", "md5",
            "file_in", "file_out"}

\* A component not running keeps one of its initial states: the map of
\* capacity 4, itoa(0), StringTrim(""), the MD5 of the empty message, and
\* the input stream on the first file.
SeqInit == /\ running \in Structs /\ C!Init /\ E!Init
           /\ IF running = "lru" THEN L!Init
              ELSE L!Init /\ capacity = 4
           /\ IF running = "numbers" THEN N!Init
              ELSE n_call = [fn |-> "itoa", i |-> 0] /\ n_out = NoValue
           /\ IF running = "strings" THEN St!Init
              ELSE s_call = [fn |-> "trim", a |-> <<>>, b |-> <<>>] /\ s_out = NoValue
           /\ M!Init /\ (running # "md5" => msg.text = <<>>)
           /\ FI!Init /\ (running # "file_in" => fi_file = <<101, 102, 103>>)
           /\ FO!Init /\ Init

\* A failed CHECK of the map aborts the process, and a conversion or string
\* helper returns once: the final state repeats.  Md5's Read repeats the
\* finalized state.
SeqNext == \/ running = "cuckoo" /\ Next /\ UNCHANGED <<running, cvars, evars, lvars, nvars, svars, mvars, ivars, ovars>>
           \/ running = "count_min" /\ C!Next /\ UNCHANGED <<running, evars, lvars, nvars, svars, mvars, ivars, ovars, fvars>>
           \/ running = "expandable_bloom" /\ E!Next /\ UNCHANGED <<running, cvars, lvars, nvars, svars, mvars, ivars, ovars, fvars>>
           \/ running = "lru" /\ L!Next /\ UNCHANGED <<running, cvars, evars, nvars, svars, mvars, ivars, ovars, fvars>>
           \/ running = "lru" /\ l_crashed /\ UNCHANGED allvars
           \/ running = "numbers" /\ N!Next /\ UNCHANGED <<running, cvars, evars, lvars, svars, mvars, ivars, ovars, fvars>>
           \/ running = "numbers" /\ n_out # NoValue /\ UNCHANGED allvars
           \/ running = "strings" /\ St!Next /\ UNCHANGED <<running, cvars, evars, lvars, nvars, mvars, ivars, ovars, fvars>>
           \/ running = "strings" /\ s_out # NoValue /\ UNCHANGED allvars
           \/ running = "md5" /\ M!Next /\ UNCHANGED <<running, cvars, evars, lvars, nvars, svars, ivars, ovars, fvars>>
           \/ running = "file_in" /\ FI!Next /\ UNCHANGED <<running, cvars, evars, lvars, nvars, svars, mvars, ovars, fvars>>
           \/ running = "file_out" /\ FO!Next /\ UNCHANGED <<running, cvars, evars, lvars, nvars, svars, mvars, ivars, fvars>>

SeqSpec == SeqInit /\ [][SeqNext]_allvars

-----------------------------------------------------------------------------
\* Each invariant below is checked in the behaviours of its own component:
\* in the others that component keeps an initial state, which its own
\* behaviours reach as well.

SeqTypeOK == /\ running \in Structs /\ C!TypeOK /\ E!TypeOK /\ L!TypeOK
             /\ n_call \in NumberCalls /\ N!OutTypeOK
             /\ s_call \in StringCalls /\ St!OutTypeOK
             /\ M!TypeOK /\ FI!TypeOK /\ FO!TypeOK /\ TypeOK

\* CuckooFilter: Contains (the victim check, then the hasvalue4 trick over
\* both buckets) answers exactly for the fingerprints stored.
CuckooContainsMatchesStored == running = "cuckoo" => ContainsMatchesStored

\* CuckooFilter implements the fingerprint multiset CuckooSet: every step,
\* two-kick chains, the victim slot and Delete's re-add of the victim
\* included, is a step of the abstract multiset.
\* (CuckooSetRefinement, of CuckooFilter)

\* CountMinSketch: while no cell has been clamped and no key's exact count
\* is negative, GetCount never underestimates (see CountMinSketch).
NoUnderestimateUnclamped == running = "count_min" => C!NoUnderestimateUnclamped

\* CountMinSketch: while no cell has been clamped, each row adds up to
\* sum_counts_.
RowSumsMatchUnclamped == running = "count_min" => C!RowSumsMatchUnclamped

\* ExpandableBloomFilter: every key inserted since Clear is contained.
NoFalseNegative == running = "expandable_bloom" => E!NoFalseNegative

\* ExpandableBloomFilter: the CHECKs of Insert never fail.
NoCheckFailure == running = "expandable_bloom" => E!NoCheckFailure

\* ExpandableBloomFilter: instances fill up in order, each to its cutoff.
FilledInOrder == running = "expandable_bloom" => E!FilledInOrder

\* LruMap: list_ and map_ hold the same keys, each once (CheckInternalCorrectness).
MapMatchesList == running = "lru" => L!MapMatchesList

\* LruMap: a CHECK of Put or EvictOldest fails only at capacity 0.
CheckFailsOnlyAtZeroCapacity == running = "lru" => L!CheckFailsOnlyAtZeroCapacity

\* LruMap implements the abstract LRU cache LruCache.
LruRefinesCache == L!LruRefinesCache

\* Numbers: a safe_strto* parse returns true exactly for the strings the
\* header allows, with their value, and false on overflow.
ParseMatchesReference == running = "numbers" => N!ParseMatchesReference

\* Numbers: FastInt32ToBufferLeft writes the decimal digits of its value.
DecimalRoundTrip == running = "numbers" => N!DecimalRoundTrip

\* Numbers: FastHexToBuffer, FastHex32ToBuffer and FastHex64ToBuffer write
\* the hexadecimal digits of their value, padded as each promises.
HexMatchesReference == running = "numbers" => N!HexMatchesReference

\* Numbers: the tables kInt32MaxLength, kInt32Cutoff, kInt32Remain and
\* kInt64Remain hold the length of kint32max and the quotients and
\* remainders of kint32max and kint64max by each base.
Int32TablesExact == running = "numbers" => N!Int32TablesExact

\* IntMath: CeilOfRatio and FloorOfRatio round C's truncating quotient the
\* right way, GCD is the greatest common divisor and LeastCommonMultiple
\* the least common multiple, for arguments of both signs.
MathMatchesReference == running = "numbers" => N!MathMatchesReference

\* IntMath: mkgmtime returns timegm's seconds for dates from December 1969 on,
\* months outside 0..11 included.
MkgmtimeMatchesTimegm == running = "numbers" => N!MkgmtimeMatchesTimegm

\* Strings: ConsumeFirstWord, StartsWith and EndsWith (for affixes without
\* NUL), the StringPiece comparisons and the joins agree with their
\* reference definitions.
StringsMatchReference == running = "strings" => St!StringsMatchReference

\* Md5: whatever chunks the caller passes to Update and whenever it calls
\* Finalize, the digest is the RFC 1321 MD5 of the bytes passed.
DigestMatchesRfc1321 == running = "md5" => M!DigestMatchesRfc1321

\* FileInputStream: Read, ReadLine and ReadGeneric return the file's bytes
\* in file order, each at most once, skip none while no read(2) failed,
\* and have returned all of them once reached_eof_ is set.
DeliveredInFileOrder == running = "file_in" => FI!DeliveredInFileOrder

\* FileOutputStream: while no write(2) failed, the file and the buffer hold
\* exactly the bytes of the successful Writes, whatever short writes Flush
\* met, and after the destructor the file alone holds them.
FileHoldsAcceptedBytes == running = "file_out" => FO!FileHoldsAcceptedBytes
=============================================================================
