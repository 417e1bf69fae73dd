------------------------------ MODULE Numbers ------------------------------
(***************************************************************************)
(* The integer conversions of src/string/numbers.cc: the parser template   *)
(* safe_strtoIntType_base_internal (whitespace, sign, "0x" and base-0      *)
(* handling, then a fast loop for inputs shorter than max_length or a loop *)
(* that checks for overflow against the cutoff and remainder tables), the  *)
(* int32 tables it is given, and the digit writers FastUInt32ToBufferLeft, *)
(* FastInt32ToBufferLeft, FastHexToBuffer and InternalFastHexToBuffer.     *)
(* A string is a sequence of ASCII codes; a parse result is a record       *)
(* [ok, v], with v NoValue when the call returns false (and leaves *v).    *)
(* Each call is one step: Init chooses the call, the step computes what it *)
(* returns, and the properties compare that with a reference definition.  *)
(***************************************************************************)
EXTENDS Integers, Sequences, SequencesExt, Bitwise, IntMath

CONSTANTS NoValue,
          ParseCalls,   \* records [s, base, width]: width 8 or 32
          Int32Values,  \* arguments of FastInt32ToBufferLeft (not INT_MIN)
          HexValues,    \* non-negative arguments of the hex writers
          MathCalls,    \* records [op, a, b] of the MathUtil functions
          Dates         \* struct tm records [year, mon, mday, hour, min, sec]

VARIABLES call, out

vars == <<call, out>>

Plus == 43
Minus == 45
Zero == 48

\* The largest value of a W-bit signed integer (2^(W-1) - 1, kept in range).
MaxInt(W) == 2^(W - 2) - 1 + 2^(W - 2)

\* ascii_isspace: space, \t, \n, \v, \f and \r.
IsSpace(c) == c = 32 \/ c \in 9..13

\* kAsciiToInt: digit value of a character, 36 for one that is no digit.
AsciiToInt(c) == CASE c \in 48..57  -> c - 48
                   [] c \in 65..90  -> c - 55
                   [] c \in 97..122 -> c - 87
                   [] OTHER         -> 36

\* A table of the source, written from base 0, as a function of the base.
Table(t) == [b \in 0..36 |-> t[b + 1]]

kInt32MaxLength == Table(<<
  0, 0, 31, 20, 16, 14, 12, 12, 11, 10, 10, 9, 9, 9, 9, 8, 8,
  8, 8, 8, 8, 8, 7, 7, 7, 7, 7, 7, 7, 7, 7, 7, 7, 7, 7, 7, 6 >>)

\* Mutant: the base-10 cutoff rounded up.
kInt32CutoffTypo == Table(<<
  0, 0, 1073741823, 715827882, 536870911, 429496729, 357913941,
  306783378, 268435455, 238609294, 214748365, 195225786, 178956970,
  165191049, 153391689, 143165576, 134217727, 126322567, 119304647,
  113025455, 107374182, 102261126, 97612893, 93368854, 89478485,
  85899345, 82595524, 79536431, 76695844, 74051160, 71582788, 69273666,
  67108863, 65075262, 63161283, 61356675, 59652323 >>)

kInt32Cutoff == Table(<<
  0, 0, 1073741823, 715827882, 536870911, 429496729, 357913941,
  306783378, 268435455, 238609294, 214748364, 195225786, 178956970,
  165191049, 153391689, 143165576, 134217727, 126322567, 119304647,
  113025455, 107374182, 102261126, 97612893, 93368854, 89478485,
  85899345, 82595524, 79536431, 76695844, 74051160, 71582788, 69273666,
  67108863, 65075262, 63161283, 61356675, 59652323 >>)

kInt32Remain == Table(<<
  0, 0, 1, 1, 3, 2, 1, 1, 7, 1, 7, 1, 7, 10, 1, 7, 15, 8, 1, 2, 7, 1, 1, 5, 7,
  22, 23, 10, 15, 7, 7, 1, 31, 1, 25, 22, 19 >>)

kInt64Remain == Table(<<
  0, 0, 1, 1, 3, 2, 1, 0, 7, 7, 7, 7, 7, 7, 7, 7, 15, 8, 7, 17, 7, 7, 7, 2,
  7, 7, 7, 25, 7, 11, 7, 7, 31, 7, 25, 7, 7 >>)

Fail == [ok |-> FALSE, v |-> NoValue]

\* The whitespace loop: drop a leading, else a trailing, space.
RECURSIVE StripSpace(_)
StripSpace(s) == CASE s = <<>>          -> s
                   [] IsSpace(Head(s))  -> StripSpace(Tail(s))
                   [] IsSpace(Last(s))  -> StripSpace(Front(s))
                   [] OTHER             -> s

\* Whitespace, sign, hexadecimal and base-0 processing, entered only when
\* the first character is <= '0', the last < '0', or base is 0.
Prefix(s0, base0) ==
    LET s1   == StripSpace(s0)
        sign == IF s1 # <<>> /\ s1[1] = Minus THEN -1 ELSE 1
        s2   == IF s1 # <<>> /\ s1[1] \in {Minus, Plus} THEN Tail(s1) ELSE s1
        hex  == /\ Len(s2) >= 2 /\ s2[1] = Zero /\ base0 \in {0, 16}
                /\ (s2[2] | 32) = 120
        s3   == IF hex THEN SubSeq(s2, 3, Len(s2)) ELSE s2
    IN CASE ~(s0[1] <= Zero \/ Last(s0) < Zero \/ base0 = 0) ->
              [ok |-> TRUE, s |-> s0, sign |-> 1, base |-> base0]
         [] s1 = <<>> \/ s2 = <<>> \/ s3 = <<>> -> [ok |-> FALSE]
         [] OTHER ->
              [ok |-> TRUE, s |-> s3, sign |-> sign,
               base |-> CASE hex       -> 16
                          [] base0 = 0 -> IF s2[1] = Zero THEN 8 ELSE 10
                          [] OTHER     -> base0]

\* The Duff's device loop for inputs shorter than max_length.
RECURSIVE FastLoop(_, _, _)
FastLoop(s, base, value) ==
    IF s = <<>> THEN value
    ELSE IF AsciiToInt(Head(s)) >= base THEN NoValue
    ELSE FastLoop(Tail(s), base, value * base + AsciiToInt(Head(s)))

\* Mutant: without the case of a value one past the cutoff and a 0 digit.
RECURSIVE SlowLoopNoPastCutoff(_, _, _, _, _, _)
SlowLoopNoPastCutoff(s, base, sign, value, cutoff, remainder) ==
    LET digit == AsciiToInt(Head(s))
    IN CASE s = <<>>        -> [ok |-> TRUE, v |-> sign * value]
         [] digit >= base   -> Fail
         [] value >= cutoff ->
              IF Len(s) = 1 /\ \/ value = cutoff /\ digit <= remainder
                               \/ sign < 0 /\ value = cutoff /\ digit = remainder + 1
              THEN [ok |-> TRUE, v |-> sign * value * base + sign * digit]
              ELSE Fail
         [] OTHER -> SlowLoopNoPastCutoff(Tail(s), base, sign,
                                          value * base + digit, cutoff, remainder)

\* The loop with the overflow check; the INT_MIN cases accept a last digit
\* one past the remainder, or a value one past the cutoff and a 0 digit.
RECURSIVE SlowLoop(_, _, _, _, _, _)
SlowLoop(s, base, sign, value, cutoff, remainder) ==
    LET digit == AsciiToInt(Head(s))
        last  == Len(s) = 1
    IN CASE s = <<>>        -> [ok |-> TRUE, v |-> sign * value]
         [] digit >= base   -> Fail
         [] value >= cutoff ->
              IF last /\ \/ value = cutoff /\ digit <= remainder
                         \/ sign < 0 /\ \/ value = cutoff /\ digit = remainder + 1
                                        \/ /\ value - cutoff = 1 /\ digit = 0
                                           /\ remainder = base - 1
              THEN [ok |-> TRUE, v |-> sign * value * base + sign * digit]
              ELSE Fail
         [] OTHER -> SlowLoop(Tail(s), base, sign, value * base + digit,
                              cutoff, remainder)

safe_strtoIntType_base_internal(s, base, max_length, cutoff, remainder) ==
    LET p == Prefix(s, base)
    IN CASE s = <<>> \/ ~p.ok -> Fail
         [] Len(p.s) < max_length ->
              LET value == FastLoop(p.s, p.base, 0)
              IN IF value = NoValue THEN Fail
                 ELSE [ok |-> TRUE, v |-> p.sign * value]
         [] OTHER -> SlowLoop(p.s, p.base, p.sign, 0, cutoff[p.base],
                              remainder[p.base])

safe_strto32_base(s, base) ==
    safe_strtoIntType_base_internal(s, base, kInt32MaxLength[base],
                                    kInt32Cutoff, kInt32Remain)

\* Mutant: the second character without the % 10.
two_ASCII_digitsNoMod(n) == <<Zero + (n \div 10), Zero + n>>

\* two_ASCII_digits[n]: the two characters of n, 0 <= n < 100.
two_ASCII_digits(n) == <<Zero + (n \div 10), Zero + (n % 10)>>

\* From label lt<d*100> on: two digits of u / d, subtract, down to lt100.
RECURSIVE Pairs(_, _)
Pairs(u, d) == IF d = 1 THEN two_ASCII_digits(u)
               ELSE two_ASCII_digits(u \div d) \o Pairs(u - (u \div d) * d, d \div 100)

\* One leading digit u / d, then from label sublt<d> on.
Lead(u, d) == <<Zero + (u \div d)>> \o Pairs(u - (u \div d) * d, d \div 100)

\* Mutant: "if (u > 10) goto lt100", so 10 is written as one character.
FastUInt32ToBufferLeftOffByOne(u) ==
    CASE u >= 1000000000 -> two_ASCII_digits(u \div 100000000) \o
                              Pairs(u - (u \div 100000000) * 100000000, 1000000)
      [] u < 100       -> IF u > 10 THEN Pairs(u, 1) ELSE <<Zero + u>>
      [] u < 10000     -> IF u >= 1000 THEN Pairs(u, 100) ELSE Lead(u, 100)
      [] u < 1000000   -> IF u >= 100000 THEN Pairs(u, 10000) ELSE Lead(u, 10000)
      [] u < 100000000 -> IF u >= 10000000 THEN Pairs(u, 1000000)
                          ELSE Lead(u, 1000000)
      [] OTHER         -> Lead(u, 100000000)

FastUInt32ToBufferLeft(u) ==
    CASE u >= 1000000000 -> two_ASCII_digits(u \div 100000000) \o
                              Pairs(u - (u \div 100000000) * 100000000, 1000000)
      [] u < 100       -> IF u >= 10 THEN Pairs(u, 1) ELSE <<Zero + u>>
      [] u < 10000     -> IF u >= 1000 THEN Pairs(u, 100) ELSE Lead(u, 100)
      [] u < 1000000   -> IF u >= 100000 THEN Pairs(u, 10000) ELSE Lead(u, 10000)
      [] u < 100000000 -> IF u >= 10000000 THEN Pairs(u, 1000000)
                          ELSE Lead(u, 1000000)
      [] OTHER         -> Lead(u, 100000000)

FastInt32ToBufferLeft(i) ==
    IF i < 0 THEN <<Minus>> \o FastUInt32ToBufferLeft(-i)
    ELSE FastUInt32ToBufferLeft(i)

hexdigits(d) == IF d < 10 THEN Zero + d ELSE 87 + d

\* FastHexToBuffer of an i that passes CHECK_GE(i, 0): digits written right to left while
\* digits right to left while i >>= 4 leaves something (at least one).
RECURSIVE FastHexToBuffer(_)
FastHexToBuffer(i) ==
    (IF i \div 16 > 0 THEN FastHexToBuffer(i \div 16) ELSE <<>>)
    \o <<hexdigits(i % 16)>>

\* Mutant: value >>= 8, a byte instead of a nibble per digit.
RECURSIVE InternalFastHexToBufferByteShift(_, _)
InternalFastHexToBufferByteShift(value, num_byte) ==
    IF num_byte = 0 THEN <<>>
    ELSE InternalFastHexToBufferByteShift(value \div 256, num_byte - 1)
         \o <<hexdigits(value % 16)>>

\* InternalFastHexToBuffer: exactly num_byte digits, from index num_byte-1
\* down to 0 (FastHex32ToBuffer: 8, FastHex64ToBuffer: 16).
RECURSIVE InternalFastHexToBuffer(_, _)
InternalFastHexToBuffer(value, num_byte) ==
    IF num_byte = 0 THEN <<>>
    ELSE InternalFastHexToBuffer(value \div 16, num_byte - 1)
         \o <<hexdigits(value % 16)>>

-----------------------------------------------------------------------------
(* Reference definitions: what the header comments promise.               *)

RECURSIVE NumDigits(_, _)
NumDigits(n, b) == IF n < b THEN 1 ELSE 1 + NumDigits(n \div b, b)

\* The tables by the comments that define them ("kInt32Cutoff[i]
\* corresponds to kint32max / base i", ...), for a W-bit integer.
MaxLengthOf(W) == [b \in 0..36 |-> IF b < 2 THEN 0 ELSE NumDigits(MaxInt(W), b)]
CutoffOf(W)    == [b \in 0..36 |-> IF b < 2 THEN 0 ELSE MaxInt(W) \div b]
RemainOf(W)    == [b \in 0..36 |-> IF b < 2 THEN 0 ELSE MaxInt(W) % b]

\* 2^63 - 1 modulo b, by repeated doubling.
RECURSIVE Pow2Mod(_, _)
Pow2Mod(e, b) == IF e = 0 THEN 1 % b ELSE (2 * Pow2Mod(e - 1, b)) % b

\* The representation of n >= 0 in base b, most significant digit first.
RECURSIVE Repr(_, _)
Repr(n, b) == IF n < b THEN <<n>> ELSE Repr(n \div b, b) \o <<n % b>>

Chars(ds) == [k \in 1..Len(ds) |-> IF ds[k] < 10 THEN Zero + ds[k] ELSE 87 + ds[k]]

\* -(the value of the digits ds in base b) when it is at least Min, else
\* NoValue; accumulated negatively so that it stays in range.
RECURSIVE NegValue(_, _, _, _)
NegValue(ds, b, acc, min) ==
    IF ds = <<>> THEN acc
    ELSE IF acc < (min + AsciiToInt(Head(ds)) + b - 1) \div b THEN NoValue
    ELSE NegValue(Tail(ds), b, acc * b - AsciiToInt(Head(ds)), min)

\* "Leading and trailing spaces are allowed ... Returns false on errors
\* (including overflow/underflow)": the string reads as a spaces, a sign of
\* g characters, a prefix "0x" or "0X" of x characters (base 16 or 0), at
\* least one digit of base b (for base 0: 16 after "0x", 8 after a leading
\* 0, else 10), and z spaces; and its value fits a W-bit signed integer.
RefParse(s, base, W) ==
    LET n == Len(s)
        digits(a, z, g, x) == SubSeq(s, a + g + x + 1, n - z)
        neg(a, g) == g = 1 /\ s[a + 1] = Minus
        mag(r) == NegValue(digits(r[1], r[2], r[3], r[4]), r[5], 0, -MaxInt(W) - 1)
        Reads ==
          {r \in (0..n) \X (0..n) \X {0, 1} \X {0, 2} \X {8, 10, 16, base} :
             LET a == r[1]  z == r[2]  g == r[3]  x == r[4]  b == r[5]
             IN /\ a + g + x < n - z
                /\ \A k \in 1..a : IsSpace(s[k])
                /\ \A k \in (n - z + 1)..n : IsSpace(s[k])
                /\ g = 1 => s[a + 1] \in {Plus, Minus}
                /\ x = 2 => /\ s[a + g + 1] = Zero /\ s[a + g + 2] \in {88, 120}
                            /\ base \in {0, 16} /\ b = 16
                /\ x = 0 => b = CASE base # 0         -> base
                                   [] s[a + g + 1] = Zero -> 8
                                   [] OTHER            -> 10
                /\ \A k \in 1..Len(digits(a, z, g, x)) :
                      AsciiToInt(digits(a, z, g, x)[k]) < b
                /\ mag(r) # NoValue
                /\ ~neg(a, g) => mag(r) >= -MaxInt(W)}
    IN IF Reads = {} THEN Fail
       ELSE LET r == CHOOSE r \in Reads : TRUE
            IN [ok |-> TRUE, v |-> IF neg(r[1], r[3]) THEN mag(r) ELSE -mag(r)]

-----------------------------------------------------------------------------
(* The calls.  A width-8 parse runs the template on an 8-bit IntType with *)
(* the tables its comments define, so that every overflow case is reached *)
(* by short strings; a width-32 parse is safe_strto32_base itself.        *)

Calls == {[fn |-> "strto", s |-> p.s, base |-> p.base, width |-> p.width] :
            p \in ParseCalls}
         \cup {[fn |-> "itoa", i |-> i] : i \in Int32Values}
         \cup {[fn |-> f, i |-> i] : f \in {"hex", "hex32", "hex64"}, i \in HexValues}
         \cup {[fn |-> "math", op |-> c.op, a |-> c.a, b |-> c.b] : c \in MathCalls}
         \cup {[fn |-> "mkgmtime", tm |-> tm] : tm \in Dates}

Init == call \in Calls /\ out = NoValue

Parse == /\ call.fn = "strto" /\ out = NoValue
         /\ out' = IF call.width = 32 THEN safe_strto32_base(call.s, call.base)
                   ELSE safe_strtoIntType_base_internal(call.s, call.base,
                          MaxLengthOf(8)[call.base], CutoffOf(8), RemainOf(8))
         /\ UNCHANGED call

FormatInt32 == /\ call.fn = "itoa" /\ out = NoValue
               /\ out' = FastInt32ToBufferLeft(call.i)
               /\ UNCHANGED call

FormatHex == /\ call.fn = "hex" /\ out = NoValue
             /\ out' = FastHexToBuffer(call.i)
             /\ UNCHANGED call

FormatHex32 == /\ call.fn = "hex32" /\ out = NoValue
               /\ out' = InternalFastHexToBuffer(call.i, 8)
               /\ UNCHANGED call

FormatHex64 == /\ call.fn = "hex64" /\ out = NoValue
               /\ out' = InternalFastHexToBuffer(call.i, 16)
               /\ UNCHANGED call

\* A call of a MathUtil function on integral arguments.
Math == /\ call.fn = "math" /\ out = NoValue
        /\ out' = LET a == call.a
                      b == call.b
                  IN CASE call.op = "max"     -> MathMax(a, b)
                       [] call.op = "min"     -> MathMin(a, b)
                       [] call.op = "abs"     -> Abs(a)
                       [] call.op = "sign"    -> Sign(a)
                       [] call.op = "absdiff" -> AbsDiff(a, b)
                       [] call.op = "ceil"    -> CeilOfRatio(a, b)
                       [] call.op = "floor"   -> FloorOfRatio(a, b)
                       [] call.op = "gcd"     -> GCD(a, b)
                       [] call.op = "gcd64"   -> GCD64(a, b)
                       [] call.op = "lcm"     -> LeastCommonMultiple(a, b)
        /\ UNCHANGED call

MkGmTime == /\ call.fn = "mkgmtime" /\ out = NoValue
            /\ out' = mkgmtime(call.tm)
            /\ UNCHANGED call

Next == Parse \/ FormatInt32 \/ FormatHex \/ FormatHex32 \/ FormatHex64
        \/ Math \/ MkGmTime

Spec == Init /\ [][Next]_vars

-----------------------------------------------------------------------------
\* The type of each call's result (TypeOK without the enumeration of Calls).
OutTypeOK == /\ out # NoValue /\ call.fn = "strto" => out \in [ok : BOOLEAN, v : Int \cup {NoValue}]
             /\ out # NoValue /\ call.fn \in {"itoa", "hex", "hex32", "hex64"} => out \in Seq(32..126)
             /\ out # NoValue /\ call.fn \in {"math", "mkgmtime"} => out \in Int

TypeOK == call \in Calls /\ OutTypeOK

\* A parse returns true exactly for the strings the header allows (spaces,
\* sign, "0x", digits of the base, spaces), with their value, and false on
\* every other string and on overflow, the INT_MIN edge of the cutoff and
\* remainder check and the base-0 and "0x" handling included.
ParseMatchesReference ==
    out # NoValue /\ call.fn = "strto" => out = RefParse(call.s, call.base, call.width)

\* FastInt32ToBufferLeft writes the decimal form of i (through each of the
\* goto entries of FastUInt32ToBufferLeft), and safe_strto32_base reads it
\* back as i.
DecimalRoundTrip ==
    out # NoValue /\ call.fn = "itoa" =>
        /\ out = (IF call.i < 0 THEN <<Minus>> ELSE <<>>)
                 \o Chars(Repr(IF call.i < 0 THEN -call.i ELSE call.i, 10))
        /\ safe_strto32_base(out, 10) = [ok |-> TRUE, v |-> call.i]

\* The hex writers produce the base-16 digits of the value: FastHexToBuffer
\* without leading zeros, FastHex32ToBuffer and FastHex64ToBuffer padded
\* with zeros to 8 and 16 digits.
HexMatchesReference ==
    LET hex == Chars(Repr(call.i, 16))
        pad(w) == [k \in 1..(w - Len(hex)) |-> Zero] \o hex
    IN out # NoValue =>
         /\ call.fn = "hex"   => out = hex
         /\ call.fn = "hex32" => out = pad(8)
         /\ call.fn = "hex64" => out = pad(16)

\* For the base of every int32 parse, kInt32MaxLength, kInt32Cutoff and
\* kInt32Remain hold the length of kint32max, kint32max / base and
\* kint32max % base, and kInt64Remain holds kint64max % base (the int64
\* cutoffs and lengths are beyond TLC's integers).
Int32TablesExact ==
    call.fn = "strto" /\ call.width = 32 /\ call.base # 0 =>
        LET b == call.base
        IN /\ kInt32MaxLength[b] = NumDigits(MaxInt(32), b)
           /\ kInt32Cutoff[b] = MaxInt(32) \div b
           /\ kInt32Remain[b] = MaxInt(32) % b
           /\ kInt64Remain[b] = (Pow2Mod(63, b) + b - 1) % b

\* Each MathUtil function returns what its name says on int32 arguments of
\* both signs and on both signs of divisor: CeilOfRatio and FloorOfRatio
\* round C's truncating quotient the right way, GCD/GCD64 are the greatest
\* common divisor and LeastCommonMultiple the least common multiple.
MathMatchesReference ==
    out # NoValue /\ call.fn = "math" =>
        LET a == call.a
            b == call.b
        IN out = CASE call.op = "max"     -> IF a >= b THEN a ELSE b
                   [] call.op = "min"     -> IF a <= b THEN a ELSE b
                   [] call.op = "abs"     -> IF a < 0 THEN -a ELSE a
                   [] call.op = "sign"    -> IF a < 0 THEN -1 ELSE IF a > 0 THEN 1 ELSE 0
                   [] call.op = "absdiff" -> IF a < b THEN b - a ELSE a - b
                   [] call.op = "ceil"    -> RefCeil(a, b)
                   [] call.op = "floor"   -> RefFloor(a, b)
                   [] call.op \in {"gcd", "gcd64"} -> RefGCD(a, b)
                   [] call.op = "lcm"     -> RefLCM(a, b)

\* "A replacement for mktime that assumes GMT": mkgmtime returns what
\* timegm returns, the seconds from 1970-01-01 00:00:00 UTC, for months
\* outside 0..11 too (they carry into the year).
MkgmtimeMatchesTimegm ==
    out # NoValue /\ call.fn = "mkgmtime" => out = Timegm(call.tm)
====
