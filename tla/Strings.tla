------------------------------ MODULE Strings -------------------------------
(***************************************************************************)
(* The string helpers of split.h (StringTrim, StartsWith, EndsWith,        *)
(* ConsumeFirstWord), the join loops of join.h (JoinStringsIterator and    *)
(* JoinKeysAndValuesIterator, which JoinStrings calls) and the comparison  *)
(* operators of StringPiece (stringpiece.h).  A string is a sequence of    *)
(* byte values; a C string (c_str()) is the same bytes followed by a NUL.  *)
(* Each call is one step, as in Numbers: Init chooses the call, the step   *)
(* computes what it returns.                                               *)
(***************************************************************************)
EXTENDS Integers, Sequences, SequencesExt

CONSTANTS Texts,     \* the strings passed to the helpers
          Affixes,   \* the second argument of StartsWith and EndsWith
          Pieces,    \* the StringPieces compared
          Joins,     \* records [parts, delim] passed to JoinStringsIterator
          KeyValues, \* records [pairs, intra, inter] passed to JoinKeysAndValuesIterator
          NoValue

VARIABLES call, out

vars == <<call, out>>

Space == 32
NUL == 0

\* std::string::npos, and any count above every string's length: substr
\* and erase clamp such a count to the end of the string.
npos == 2^30

\* size() - 1 in size_t: 0 - 1 wraps to the largest size_t.
SizeMinusOne(n) == IF n = 0 THEN npos ELSE n - 1

\* s.substr(pos, n) for pos <= size(): at most n bytes from 0-based pos.
Substr(s, pos, n) == SubSeq(s, pos + 1, pos + (IF n < Len(s) - pos THEN n ELSE Len(s) - pos))

\* find_first_not_of(' ') and find_last_not_of(' '), 0-based, npos if none.
FirstNotSpace(s) == LET i == SelectInSeq(s, LAMBDA c : c # Space)
                    IN IF i = 0 THEN npos ELSE i - 1
LastNotSpace(s)  == LET i == SelectLastInSeq(s, LAMBDA c : c # Space)
                    IN IF i = 0 THEN npos ELSE i - 1

StringTrim(s) ==
    LET pos1 == FirstNotSpace(s)
        pos2 == LastNotSpace(s)
    IN Substr(s, IF pos1 = npos THEN 0 ELSE pos1,
               IF pos2 = npos THEN SizeMinusOne(Len(s)) ELSE pos2 - pos1 + 1)

\* strncmp(a + offset, b, n) on C strings: bytes compared in order up to
\* n, stopping at the first difference (its unsigned sign) or at a NUL.
RECURSIVE Strncmp(_, _, _, _)
Strncmp(a, b, n, i) ==
    CASE i > n          -> 0
      [] a[i] < b[i]    -> -1
      [] a[i] > b[i]    -> 1
      [] a[i] = NUL     -> 0
      [] OTHER          -> Strncmp(a, b, n, i + 1)

StartsWith(s1, s2) ==
    IF Len(s2) > Len(s1) THEN FALSE
    ELSE Strncmp(s1, s2, Len(s2), 1) = 0

EndsWith(s1, s2) ==
    IF Len(s2) > Len(s1) THEN FALSE
    ELSE Strncmp(SubSeq(s1, Len(s1) - Len(s2) + 1, Len(s1)), s2, Len(s2), 1) = 0

\* ConsumeFirstWord(&input): the bytes before the first space, and input
\* with them and the run of spaces after them erased; with no space, the
\* whole input and an empty input.  (Neither substr(0, pos) nor
\* erase(0, pos) can throw with pos <= size(), so the catch is dead.)
ConsumeFirstWord(input) ==
    LET i == SelectInSeq(input, LAMBDA c : c = Space)
        rest == SubSeq(input, i, Len(input))
        skip == SelectInSeq(rest, LAMBDA c : c # Space)
    IN IF i = 0 THEN [ret |-> input, input |-> <<>>]
       ELSE [ret |-> SubSeq(input, 1, i - 1),
             input |-> IF skip = 0 THEN <<>> ELSE SubSeq(rest, skip, Len(rest))]

\* JoinStringsIterator: result cleared, then delim before every part but
\* the first, and the part.  (The precomputed length only sizes reserve().)
JoinStringsIterator(parts, delim) ==
    FoldLeft(LAMBDA acc, i : acc \o (IF i # 1 THEN delim ELSE <<>>) \o parts[i],
             <<>>, [i \in 1..Len(parts) |-> i])

\* JoinKeysAndValuesIterator: inter_delim before every pair but the first,
\* then key, intra_delim, value.
JoinKeysAndValuesIterator(pairs, intra, inter) ==
    FoldLeft(LAMBDA acc, i : acc \o (IF i # 1 THEN inter ELSE <<>>)
                                 \o pairs[i][1] \o intra \o pairs[i][2],
             <<>>, [i \in 1..Len(pairs) |-> i])

\* memcmp(p1, p2, n): the unsigned sign of the first differing byte.
Memcmp(x, y, n) ==
    LET i == SelectInSeq([k \in 1..n |-> x[k] # y[k]], LAMBDA d : d)
    IN IF i = 0 THEN 0 ELSE IF x[i] < y[i] THEN -1 ELSE 1

\* Mutant: == without the last-byte test, so an odd last byte is never read.
SpEqNoLastByte(x, y) ==
    Len(x) = Len(y) /\ Memcmp(x, y, (Len(x) \div 2) * 2) = 0

\* operator==: sizes first; then the last byte; then memcmp over the
\* even-length prefix (len &= ~1), which the last-byte test completes.
\* Two pieces with the same data pointer hold the same bytes, so that test
\* is subsumed.
SpEq(x, y) ==
    LET len == Len(x)
    IN CASE len # Len(y)          -> FALSE
         [] len <= 0              -> TRUE
         [] x[len] # y[len]       -> FALSE
         [] len = 1               -> TRUE
         [] OTHER                 -> Memcmp(x, y, (len \div 2) * 2) = 0

\* operator<: memcmp over the shorter size, then the shorter one first.
SpLess(x, y) ==
    LET min_size == IF Len(x) < Len(y) THEN Len(x) ELSE Len(y)
        r == Memcmp(x, y, min_size)
    IN (r < 0) \/ (r = 0 /\ Len(x) < Len(y))

-----------------------------------------------------------------------------
Calls == {[fn |-> f, a |-> s, b |-> <<>>] : f \in {"trim", "consume"}, s \in Texts}
         \cup {[fn |-> f, a |-> s, b |-> t] : f \in {"starts", "ends"}, s \in Texts, t \in Affixes}
         \cup {[fn |-> f, a |-> s, b |-> t] : f \in {"==", "!=", "<", ">", "<=", ">="},
                                               s \in Pieces, t \in Pieces}
         \cup {[fn |-> "join", j |-> j] : j \in Joins}
         \cup {[fn |-> "joinkv", j |-> j] : j \in KeyValues}

Init == call \in Calls /\ out = NoValue

Trim == /\ call.fn = "trim" /\ out = NoValue
        /\ out' = StringTrim(call.a)
        /\ UNCHANGED call

Consume == /\ call.fn = "consume" /\ out = NoValue
           /\ out' = ConsumeFirstWord(call.a)
           /\ UNCHANGED call

Affix == /\ call.fn \in {"starts", "ends"} /\ out = NoValue
         /\ out' = IF call.fn = "starts" THEN StartsWith(call.a, call.b)
                   ELSE EndsWith(call.a, call.b)
         /\ UNCHANGED call

\* The six operators: != is !(x == y), > is y < x, <= is !(x > y) and >= is
\* !(x < y).
Compare == /\ call.fn \in {"==", "!=", "<", ">", "<=", ">="} /\ out = NoValue
           /\ out' = CASE call.fn = "==" -> SpEq(call.a, call.b)
                       [] call.fn = "!=" -> ~SpEq(call.a, call.b)
                       [] call.fn = "<"  -> SpLess(call.a, call.b)
                       [] call.fn = ">"  -> SpLess(call.b, call.a)
                       [] call.fn = "<=" -> ~SpLess(call.b, call.a)
                       [] call.fn = ">=" -> ~SpLess(call.a, call.b)
           /\ UNCHANGED call

Join == /\ call.fn = "join" /\ out = NoValue
        /\ out' = JoinStringsIterator(call.j.parts, call.j.delim)
        /\ UNCHANGED call

JoinKv == /\ call.fn = "joinkv" /\ out = NoValue
          /\ out' = JoinKeysAndValuesIterator(call.j.pairs, call.j.intra, call.j.inter)
          /\ UNCHANGED call

Next == Trim \/ Consume \/ Affix \/ Compare \/ Join \/ JoinKv

Spec == Init /\ [][Next]_vars

-----------------------------------------------------------------------------
Bytes == 0..255
\* The type of each call's result (TypeOK without the enumeration of Calls).
OutTypeOK == /\ out # NoValue /\ call.fn \in {"trim", "join", "joinkv"} => out \in Seq(Bytes)
             /\ out # NoValue /\ call.fn = "consume" => out \in [ret : Seq(Bytes), input : Seq(Bytes)]
             /\ out # NoValue /\ call.fn \notin {"trim", "join", "joinkv", "consume"} => out \in BOOLEAN

TypeOK == call \in Calls /\ OutTypeOK

\* Reference definitions.
Spaces(k) == [i \in 1..k |-> Space]
HasNoSpace(s) == \A i \in 1..Len(s) : s[i] # Space
HasNoNul(s) == \A i \in 1..Len(s) : s[i] # NUL
\* s without its leading and trailing spaces.
Trimmed(s) == LET f == SelectInSeq(s, LAMBDA c : c # Space)
                  l == SelectLastInSeq(s, LAMBDA c : c # Space)
              IN IF f = 0 THEN <<>> ELSE SubSeq(s, f, l)
\* Lexicographic order of unsigned bytes, a proper prefix first.
LexLess(x, y) ==
    \E i \in 0..Len(x) :
        /\ i <= Len(y) /\ SubSeq(x, 1, i) = SubSeq(y, 1, i)
        /\ \/ i = Len(x) /\ i < Len(y)
           \/ i < Len(x) /\ i < Len(y) /\ x[i + 1] < y[i + 1]
\* The parts with the delimiter between each two: part, delim, part, ...
Interleaved(parts, delim) ==
    FlattenSeq([k \in 1..(2 * Len(parts) - 1) |->
                  IF k % 2 = 1 THEN parts[(k + 1) \div 2] ELSE delim])

\* StringTrim returns its argument without the leading and trailing
\* spaces, for every string, including the empty one and one of spaces only.
TrimMatchesReference ==
    out # NoValue /\ call.fn = "trim" => out = Trimmed(call.a)

\* The other helpers do what their names say:
\* * ConsumeFirstWord splits its input into a word with no space, the run
\*   of spaces after it (at least one if the input had a space) and the
\*   rest, which it leaves in the input;
\* * StartsWith and EndsWith, whose strncmp stops at a NUL, test for a
\*   prefix and a suffix when the affix has no NUL byte;
\* * the six StringPiece operators, whose == compares the last byte and
\*   then an even-length prefix, are equality and lexicographic order of
\*   unsigned bytes;
\* * the two join loops put each delimiter exactly between two parts.
StringsMatchReference ==
    out # NoValue =>
        /\ call.fn = "consume" =>
               /\ HasNoSpace(out.ret)
               /\ out.input = <<>> \/ out.input[1] # Space
               /\ \E k \in 0..Len(call.a) :
                     /\ call.a = out.ret \o Spaces(k) \o out.input
                     /\ (k = 0) = HasNoSpace(call.a)
        /\ call.fn = "starts" /\ HasNoNul(call.b) => out = IsPrefix(call.b, call.a)
        /\ call.fn = "ends" /\ HasNoNul(call.b) => out = IsSuffix(call.b, call.a)
        /\ call.fn = "==" => out = (call.a = call.b)
        /\ call.fn = "!=" => out = (call.a # call.b)
        /\ call.fn = "<"  => out = LexLess(call.a, call.b)
        /\ call.fn = ">"  => out = LexLess(call.b, call.a)
        /\ call.fn = "<=" => out = ~LexLess(call.b, call.a)
        /\ call.fn = ">=" => out = ~LexLess(call.a, call.b)
        /\ call.fn = "join" /\ call.j.parts # <<>> =>
               out = Interleaved(call.j.parts, call.j.delim)
        /\ call.fn = "join" /\ call.j.parts = <<>> => out = <<>>
        /\ call.fn = "joinkv" /\ call.j.pairs # <<>> =>
               out = Interleaved([i \in 1..Len(call.j.pairs) |->
                                   call.j.pairs[i][1] \o call.j.intra \o call.j.pairs[i][2]],
                                 call.j.inter)
        /\ call.fn = "joinkv" /\ call.j.pairs = <<>> => out = <<>>
=============================================================================
