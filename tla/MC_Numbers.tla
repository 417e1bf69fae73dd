----------------------------- MODULE MC_Numbers -----------------------------
(* Inputs for the integer conversions.                                    *)
EXTENDS Numbers, FiniteSets

(* Every string of up to four characters over space, '+', '-', '0', '1',  *)
(* '2', '7', '8', 'f' and 'x', in bases 0, 8, 10 and 16, parsed as int8:  *)
(* this reaches 127, 128, -128 and -129 in each base, "0x" prefixes,      *)
(* octal and hex readings of base 0, and every whitespace and sign case.  *)
Alphabet == {32, Plus, Minus, Zero, 49, 50, 55, 56, 102, 120}
Int8Calls == {[s |-> t, base |-> b, width |-> 8] :
                t \in UNION {[1..n -> Alphabet] : n \in 1..4}, b \in {0, 8, 10, 16}}

(* int32 strings at the overflow boundary of safe_strto32_base: a value  *)
(* one below, at and one above kInt32Cutoff followed by a last digit      *)
(* around kInt32Remain, with or without '-', leading space or leading 0,  *)
(* in every base 2..36 and, with "0x" or "0", in base 0.                 *)
Digits(q, d, b) == Chars(Repr(q, b)) \o Chars(<<d>>)
Int32Bodies(b) == {Digits(q, d, b) :
                     q \in {kInt32Cutoff[b] - 1, kInt32Cutoff[b], kInt32Cutoff[b] + 1},
                     d \in {0, kInt32Remain[b], kInt32Remain[b] + 1, b - 1} \cap 0..(b - 1)}
Leading == {<<>>, <<Minus>>, <<32, Minus>>, <<Zero>>}
Int32Calls ==
    UNION {{[s |-> l \o t, base |-> b, width |-> 32] : l \in Leading,
                                                      t \in Int32Bodies(b)} :
             b \in 2..36}
    \cup {[s |-> l \o p \o t \o <<32>>, base |-> 0, width |-> 32] :
            l \in {<<>>, <<Minus>>}, <<p, t>> \in
              ({<<Zero, 120>>} \X Int32Bodies(16)) \cup ({<<Zero>>} \X Int32Bodies(8))
              \cup ({<<>>} \X Int32Bodies(10))}

MCParseCalls == Int8Calls \cup Int32Calls

(* The thresholds of each goto entry of FastUInt32ToBufferLeft, both signs. *)
Thresholds == {0, 1, 9, 10, 11, 99, 100, 101, 999, 1000, 1001, 9999, 10000,
               99999, 100000, 999999, 1000000, 9999999, 10000000, 99999999,
               100000000, 999999999, 1000000000, 1234567890, 2147483647}
MCInt32Values == Thresholds \cup {-t : t \in Thresholds}

MCHexValues == {0, 9, 10, 15, 16, 255, 256, 4095, 65535, 305419896, 2147483647}

\* MathUtil arguments: both signs and the int32 extremes (but not INT_MIN,
\* whose negation overflows) for the comparisons; every sign combination
\* of numerator and divisor, exact and inexact, for the ratios; zero, one,
\* coprime and common-factor pairs for GCD and LCM.
Extremes == {-MaxInt(32), -1, 0, 1, MaxInt(32)}
MCMathCalls ==
    {[op |-> o, a |-> a, b |-> b] : o \in {"max", "min", "abs", "sign"}, a \in Extremes, b \in Extremes}
    \cup {[op |-> "absdiff", a |-> a, b |-> b] : a \in {-7, -1, 0, 1, 7}, b \in {-7, -1, 0, 1, 7}}
    \cup {[op |-> o, a |-> a, b |-> b] : o \in {"ceil", "floor"},
            a \in {-MaxInt(32), -7, -6, -1, 0, 1, 6, 7, MaxInt(32)}, b \in {-7, -2, -1, 1, 2, 7}}
    \cup {[op |-> o, a |-> a, b |-> b] : o \in {"gcd", "gcd64", "lcm"},
            a \in {0, 1, 4, 6, 9, 12, 35}, b \in {0, 1, 4, 6, 9, 12, 35}}

\* Dates from 1969-12 to 2037: around the epoch, the leap years 1972 and
\* 2000 (a century divisible by 400), 1999 and 2001, with months -1, 12, 13
\* and 24 that carry into the year, days 1, 29 and 31, and both ends of a
\* day.  2037 is the last year whose seconds fit TLC's integers.
MCDates ==
    {[year |-> y, mon |-> m, mday |-> d, hour |-> t[1], min |-> t[2], sec |-> t[3]] :
        y \in {70, 71, 72, 99, 100, 101, 135}, m \in {-1, 0, 1, 2, 11, 12, 13, 24},
        d \in {1, 29, 31}, t \in {<<0, 0, 0>>, <<23, 59, 59>>}}

\* Dates before 1970: 1902, 1960, 1967, 1968 and 1969.
MCEarlyDates ==
    {[year |-> y, mon |-> m, mday |-> 1, hour |-> 0, min |-> 0, sec |-> 0] :
        y \in {2, 60, 67, 68, 69}, m \in {0, 1, 2}}
=============================================================================
