------------------------------ MODULE IntMath ------------------------------
(***************************************************************************)
(* Integer arithmetic of the utilities: the integral members of MathUtil   *)
(* (src/util/math_util.h) at T = int32 (unsigned int for GCD and           *)
(* LeastCommonMultiple), and mkgmtime of src/util/clock.cc.  C's `/` and   *)
(* `%` truncate toward zero, while TLA+'s \div and % round toward minus    *)
(* infinity, so the code's divisions go through CDiv and CMod.  Each       *)
(* function is followed by what it is meant to compute, written without    *)
(* the code's tricks: floor and ceiling by \div, the greatest common       *)
(* divisor as the largest one, and timegm by counting leap years.          *)
(***************************************************************************)
EXTENDS Integers, Sequences, SequencesExt

\* C's integer division and remainder (truncation toward zero).
CDiv(n, d) == LET q == (IF n < 0 THEN -n ELSE n) \div (IF d < 0 THEN -d ELSE d)
              IN IF (n < 0) = (d < 0) THEN q ELSE -q
CMod(n, d) == n - CDiv(n, d) * d

\* MathUtil::Max, Min, Abs, Sign, AbsDiff for an integral T (no NaN).
MathMax(x, y) == IF x > y THEN x ELSE y
MathMin(x, y) == IF x < y THEN x ELSE y
Abs(x) == IF x > 0 THEN x ELSE -x
Sign(x) == IF x = 0 THEN 0 ELSE IF x > 0 THEN 1 ELSE -1
AbsDiff(x, y) == IF x > y THEN x - y ELSE y - x

\* MathUtil::CeilOfRatio: truncate, then add one when the quotient is not
\* negative and the truncation dropped a positive remainder.
CeilOfRatio(numerator, denominator) ==
    LET rounded_toward_zero == CDiv(numerator, denominator)
        intermediate_product == rounded_toward_zero * denominator
        needs_adjustment ==
            /\ rounded_toward_zero >= 0
            /\ \/ denominator > 0 /\ numerator > intermediate_product
               \/ denominator < 0 /\ numerator < intermediate_product
    IN rounded_toward_zero + (IF needs_adjustment THEN 1 ELSE 0)

\* Mutant: adjusts only a strictly negative quotient.
FloorOfRatioStrict(numerator, denominator) ==
    LET rounded_toward_zero == CDiv(numerator, denominator)
        intermediate_product == rounded_toward_zero * denominator
        needs_adjustment ==
            /\ rounded_toward_zero < 0
            /\ \/ denominator > 0 /\ numerator < intermediate_product
               \/ denominator < 0 /\ numerator > intermediate_product
    IN rounded_toward_zero - (IF needs_adjustment THEN 1 ELSE 0)

\* MathUtil::FloorOfRatio: truncate, then subtract one when the quotient is
\* not positive and the truncation dropped a remainder.
FloorOfRatio(numerator, denominator) ==
    LET rounded_toward_zero == CDiv(numerator, denominator)
        intermediate_product == rounded_toward_zero * denominator
        needs_adjustment ==
            /\ rounded_toward_zero <= 0
            /\ \/ denominator > 0 /\ numerator < intermediate_product
               \/ denominator < 0 /\ numerator > intermediate_product
    IN rounded_toward_zero - (IF needs_adjustment THEN 1 ELSE 0)

\* MathUtil::GCD and GCD64: Euclid's loop on non-negative values.
RECURSIVE GCD(_, _)
GCD(x, y) == IF y = 0 THEN x ELSE GCD(y, x % y)
GCD64(x, y) == GCD(x, y)

\* MathUtil::LeastCommonMultiple on unsigned int: divide the larger by the
\* GCD, then multiply.  The product wraps modulo 2^32 in the code; TLC's
\* integers stop at 2^31, so the arguments are kept where it does not.
LeastCommonMultiple(a, b) ==
    IF a > b THEN (a \div GCD(a, b)) * b
    ELSE IF a < b THEN (b \div GCD(b, a)) * a
    ELSE a

-----------------------------------------------------------------------------
(* mkgmtime: seconds since the epoch of a struct tm read as GMT; tm_year  *)
(* counts from 1900 and tm_mon may lie outside 0..11.                      *)

month_day == <<0, 31, 59, 90, 120, 151, 181, 212, 243, 273, 304, 334>>

\* Mutant: counts the leap day from March on (month > 2) instead of February.
mkgmtimeLateLeap(tm) ==
    LET m0 == CMod(tm.mon, 12)
        y0 == tm.year + CDiv(tm.mon, 12)
        month == IF m0 < 0 THEN m0 + 12 ELSE m0
        year == IF m0 < 0 THEN y0 - 1 ELSE y0
        year_for_leap == IF month > 2 THEN year + 1 ELSE year
    IN tm.sec + 60 * (tm.min + 60 * (tm.hour + 24 *
         (month_day[month + 1] + tm.mday - 1 + 365 * (year - 70) +
          CDiv(year_for_leap - 69, 4) - CDiv(year_for_leap - 1, 100) +
          CDiv(year_for_leap + 299, 400))))

mkgmtime(tm) ==
    LET m0 == CMod(tm.mon, 12)
        y0 == tm.year + CDiv(tm.mon, 12)
        month == IF m0 < 0 THEN m0 + 12 ELSE m0
        year == IF m0 < 0 THEN y0 - 1 ELSE y0
        year_for_leap == IF month > 1 THEN year + 1 ELSE year
    IN tm.sec + 60 * (tm.min + 60 * (tm.hour + 24 *
         (month_day[month + 1] + tm.mday - 1 + 365 * (year - 70) +
          CDiv(year_for_leap - 69, 4) - CDiv(year_for_leap - 1, 100) +
          CDiv(year_for_leap + 299, 400))))

-----------------------------------------------------------------------------
(* Reference definitions. *)

\* Floor and ceiling of n / d for a non-zero d.
RefFloor(n, d) == IF d > 0 THEN n \div d ELSE (-n) \div (-d)
RefCeil(n, d) == -RefFloor(-n, d)

\* The greatest common divisor (0 for 0 and 0) and the least common multiple
\* (0 if either is 0), by search; the arguments are small.
RefGCD(x, y) == IF x = 0 /\ y = 0 THEN 0
                ELSE CHOOSE g \in 1..(x + y) :
                        /\ x % g = 0 /\ y % g = 0
                        /\ \A h \in (g + 1)..(x + y) : ~(x % h = 0 /\ y % h = 0)
RefLCM(a, b) == IF a = 0 \/ b = 0 THEN 0
                ELSE CHOOSE m \in 1..(a * b) :
                        /\ m % a = 0 /\ m % b = 0
                        /\ \A k \in 1..(m - 1) : ~(k % a = 0 /\ k % b = 0)

\* timegm: days from 1970-01-01 by counting leap years, then seconds.
IsLeap(Y) == Y % 4 = 0 /\ (Y % 100 # 0 \/ Y % 400 = 0)
LeapsBefore(Y) == (Y - 1) \div 4 - (Y - 1) \div 100 + (Y - 1) \div 400
MonthLength(Y, m) == IF m = 1 THEN (IF IsLeap(Y) THEN 29 ELSE 28)
                     ELSE IF m \in {3, 5, 8, 10} THEN 30 ELSE 31
Timegm(tm) ==
    LET Y == 1900 + tm.year + RefFloor(tm.mon, 12)
        m == tm.mon % 12
        days == 365 * (Y - 1970) + LeapsBefore(Y) - LeapsBefore(1970)
                + FoldSeq(+, 0, [k \in 1..m |-> MonthLength(Y, k - 1)])
                + tm.mday - 1
    IN tm.sec + 60 * tm.min + 3600 * tm.hour + 86400 * days
=============================================================================
