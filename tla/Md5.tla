-------------------------------- MODULE Md5 ---------------------------------
(***************************************************************************)
(* The MD5 class of md5.cc/md5.h: Init, Update (which buffers the bytes    *)
(* that do not fill a 64-byte block and runs Transform on every full one), *)
(* Finalize (padding, the bit count, Encode of the state) and the digest.  *)
(* A caller feeds the bytes of a message in chunks and may finalize after  *)
(* any prefix, as the header allows.                                       *)
(*                                                                         *)
(* A uint32 is a pair <<hi, lo>> of 16-bit halves, since TLC's integers    *)
(* stop at 2^31; addition is modulo 2^32 through the carry of the halves.  *)
(* The 64-bit bit counter count[2] is the number of bits fed: its carry    *)
(* into count[1] needs 512 MiB of input.                                   *)
(***************************************************************************)
EXTENDS Integers, Sequences, SequencesExt, Bitwise

CONSTANTS Vectors,  \* records [text, digest]: a message and its MD5 (RFC 1321 A.5)
          Chunks    \* the lengths a caller passes to one Update

VARIABLES md5,      \* the object: [finalized, buffer, count, state, digest]
          msg,      \* the message the caller feeds, a record of Vectors
          pos       \* the number of its bytes passed to Update so far

vars == <<md5, msg, pos>>

kBlockSize == 64

Word(hi, lo) == <<hi, lo>>
AddW(x, y) == LET lo == x[2] + y[2]
              IN <<(x[1] + y[1] + lo \div 65536) % 65536, lo % 65536>>
AndW(x, y) == <<x[1] & y[1], x[2] & y[2]>>
OrW(x, y)  == <<x[1] | y[1], x[2] | y[2]>>
XorW(x, y) == <<x[1] ^^ y[1], x[2] ^^ y[2]>>
NotW(x)    == <<65535 - x[1], 65535 - x[2]>>

\* F, G, H and I, the four auxiliary functions.
F(x, y, z) == OrW(AndW(x, y), AndW(NotW(x), z))
G(x, y, z) == OrW(AndW(x, z), AndW(y, NotW(z)))
H(x, y, z) == XorW(XorW(x, y), z)
I(x, y, z) == XorW(y, OrW(x, NotW(z)))

\* (x << n) | (x >> (32 - n)), for 0 < n < 32: a rotation by 16 or more
\* swaps the halves first.
Rotl16(x, n) == <<((x[1] * 2^n) % 65536) + (x[2] \div 2^(16 - n)),
                  ((x[2] * 2^n) % 65536) + (x[1] \div 2^(16 - n))>>
rotate_left(x, n) == IF n >= 16 THEN Rotl16(<<x[2], x[1]>>, n - 16)
                     ELSE Rotl16(x, n)

\* Transform's 64 steps, in the order of the source: the word of the block
\* each reads, its shift (S11 .. S44) and its constant.
StepIndex == <<0, 1, 2, 3, 4, 5, 6, 7, 8, 9, 10, 11, 12, 13, 14, 15,
               1, 6, 11, 0, 5, 10, 15, 4, 9, 14, 3, 8, 13, 2, 7, 12,
               5, 8, 11, 14, 1, 4, 7, 10, 13, 0, 3, 6, 9, 12, 15, 2,
               0, 7, 14, 5, 12, 3, 10, 1, 8, 15, 6, 13, 4, 11, 2, 9>>
Shifts == <<<<7, 12, 17, 22>>, <<5, 9, 14, 20>>, <<4, 11, 16, 23>>, <<6, 10, 15, 21>>>>
StepConst == <<
  <<\hd76a, \ha478>>, <<\he8c7, \hb756>>, <<\h2420, \h70db>>, <<\hc1bd, \hceee>>,
  <<\hf57c, \hfaf>>, <<\h4787, \hc62a>>, <<\ha830, \h4613>>, <<\hfd46, \h9501>>,
  <<\h6980, \h98d8>>, <<\h8b44, \hf7af>>, <<\hffff, \h5bb1>>, <<\h895c, \hd7be>>,
  <<\h6b90, \h1122>>, <<\hfd98, \h7193>>, <<\ha679, \h438e>>, <<\h49b4, \h821>>,
  <<\hf61e, \h2562>>, <<\hc040, \hb340>>, <<\h265e, \h5a51>>, <<\he9b6, \hc7aa>>,
  <<\hd62f, \h105d>>, <<\h244, \h1453>>, <<\hd8a1, \he681>>, <<\he7d3, \hfbc8>>,
  <<\h21e1, \hcde6>>, <<\hc337, \h7d6>>, <<\hf4d5, \hd87>>, <<\h455a, \h14ed>>,
  <<\ha9e3, \he905>>, <<\hfcef, \ha3f8>>, <<\h676f, \h2d9>>, <<\h8d2a, \h4c8a>>,
  <<\hfffa, \h3942>>, <<\h8771, \hf681>>, <<\h6d9d, \h6122>>, <<\hfde5, \h380c>>,
  <<\ha4be, \hea44>>, <<\h4bde, \hcfa9>>, <<\hf6bb, \h4b60>>, <<\hbebf, \hbc70>>,
  <<\h289b, \h7ec6>>, <<\heaa1, \h27fa>>, <<\hd4ef, \h3085>>, <<\h488, \h1d05>>,
  <<\hd9d4, \hd039>>, <<\he6db, \h99e5>>, <<\h1fa2, \h7cf8>>, <<\hc4ac, \h5665>>,
  <<\hf429, \h2244>>, <<\h432a, \hff97>>, <<\hab94, \h23a7>>, <<\hfc93, \ha039>>,
  <<\h655b, \h59c3>>, <<\h8f0c, \hcc92>>, <<\hffef, \hf47d>>, <<\h8584, \h5dd1>>,
  <<\h6fa8, \h7e4f>>, <<\hfe2c, \he6e0>>, <<\ha301, \h4314>>, <<\h4e08, \h11a1>>,
  <<\hf753, \h7e82>>, <<\hbd3a, \hf235>>, <<\h2ad7, \hd2bb>>, <<\heb86, \hd391>> >>

\* FF, GG, HH and II: a = rotate_left(a + f(b, c, d) + x + ac, s) + b.
Round(k) == (k - 1) \div 16 + 1
Aux(k, b, c, d) == CASE Round(k) = 1 -> F(b, c, d)
                     [] Round(k) = 2 -> G(b, c, d)
                     [] Round(k) = 3 -> H(b, c, d)
                     [] Round(k) = 4 -> I(b, c, d)

\* Decode: four little-endian bytes per word.
Decode(block) == [i \in 0..15 |->
                    Word(block[4 * i + 3] + 256 * block[4 * i + 4],
                         block[4 * i + 1] + 256 * block[4 * i + 2])]

\* Encode: each word as four little-endian bytes.
Encode(words) == FlattenSeq([i \in 1..Len(words) |->
                   <<words[i][2] % 256, words[i][2] \div 256,
                     words[i][1] % 256, words[i][1] \div 256>>])

\* One step on the registers <<a, b, c, d>>: the first is replaced, and the
\* next step's FF(d, a, b, c) sees them rotated.
Step(x, r, k) ==
    LET a == AddW(rotate_left(AddW(AddW(AddW(r[1], Aux(k, r[2], r[3], r[4])),
                                        x[StepIndex[k]]), StepConst[k]),
                              Shifts[Round(k)][((k - 1) % 4) + 1]), r[2])
    IN <<r[4], a, r[2], r[3]>>

\* Op applied to the value of e, computed once.  TLC re-evaluates an
\* operator's argument or a LET definition at each use when it records
\* coverage; a bound variable holds a value.
With(e, Op(_)) == CHOOSE v \in {Op(n) : n \in {e}} : TRUE

\* Steps k..last on the registers r, one after the other.
RECURSIVE Steps(_, _, _, _)
Steps(x, r, k, last) ==
    IF k > last THEN r
    ELSE With(Step(x, r, k), LAMBDA n : Steps(x, n, k + 1, last))

\* Rounds j..4, 16 steps each.
RECURSIVE Rounds(_, _, _)
Rounds(x, r, j) ==
    IF j > 4 THEN r
    ELSE With(Steps(x, r, 16 * j - 15, 16 * j), LAMBDA n : Rounds(x, n, j + 1))

\* Transform: the four rounds from the state, then state[i] += register i.
Transform(state, block) ==
    With(Decode(block), LAMBDA x :
      With(Rounds(x, state, 1), LAMBDA r : [i \in 1..4 |-> AddW(state[i], r[i])]))

InitState == <<Word(\h6745, \h2301), Word(\hefcd, \hab89),
               Word(\h98ba, \hdcfe), Word(\h1032, \h5476)>>

\* The object after Init (the constructor); buffer is uninitialised in the
\* code and never read before it is written, so it starts as zeros.
Initial == [finalized |-> FALSE, buffer |-> [i \in 1..kBlockSize |-> 0],
            count |-> 0, state |-> InitState, digest |-> <<>>]

\* Transform of every full block of `in` from byte i on (i = firstpart,
\* firstpart + 64, ...): the loop of Update.
RECURSIVE Blocks(_, _, _)
Blocks(state, in, i) ==
    IF i + kBlockSize <= Len(in)
    THEN With(Transform(state, SubSeq(in, i + 1, i + kBlockSize)),
              LAMBDA n : Blocks(n, in, i + kBlockSize))
    ELSE [state |-> state, i |-> i]

\* Update(input, length): early return once finalized; index from the bit
\* count; the count grows by length << 3; a buffer that fills is
\* transformed together with every further full block, and the rest of
\* the input is copied to buffer[index..].
UpdateOp(o, in) ==
    LET index     == (o.count \div 8) % kBlockSize
        firstpart == kBlockSize - index
        filled    == [j \in 1..kBlockSize |->
                        IF j <= index THEN o.buffer[j] ELSE in[j - index]]
        Copy(buf, at, i) == [j \in 1..kBlockSize |->
                               IF j > at /\ j <= at + Len(in) - i
                               THEN in[i + j - at] ELSE buf[j]]
    IN CASE o.finalized -> o
         [] Len(in) >= firstpart ->
              With(With(Transform(o.state, filled), LAMBDA t : Blocks(t, in, firstpart)),
                   LAMBDA after :
                     [o EXCEPT !.count = @ + 8 * Len(in), !.state = after.state,
                               !.buffer = Copy(filled, 0, after.i)])
         [] OTHER ->
              [o EXCEPT !.count = @ + 8 * Len(in), !.buffer = Copy(@, index, 0)]

\* The 64-bit count as the eight bytes Encode(bits, count, 8) writes.
CountBytes(bits) == Encode(<<Word((bits \div 65536) % 65536, bits % 65536), Word(0, 0)>>)

\* Mutant: the padding length without the wrap for index >= 56.
FinalizeOpNoWrap(o) ==
    LET index  == (o.count \div 8) % 64
    IN With(UpdateOp(o, <<128>> \o [i \in 1..55 - index |-> 0]), LAMBDA padded :
         With(UpdateOp(padded, CountBytes(o.count)), LAMBDA done :
           [done EXCEPT !.digest = Encode(done.state),
                        !.buffer = [i \in 1..kBlockSize |-> 0], !.count = 0,
                        !.finalized = TRUE]))

\* Finalize: pad to 56 bytes modulo 64 (120 - index when index >= 56),
\* append the count saved before padding, encode the digest, zero buffer
\* and count.
FinalizeOp(o) ==
    LET index  == (o.count \div 8) % 64
        padLen == IF index < 56 THEN 56 - index ELSE 120 - index
    IN With(UpdateOp(o, <<128>> \o [i \in 1..padLen - 1 |-> 0]), LAMBDA padded :
         With(UpdateOp(padded, CountBytes(o.count)), LAMBDA done :
           [done EXCEPT !.digest = Encode(done.state),
                        !.buffer = [i \in 1..kBlockSize |-> 0], !.count = 0,
                        !.finalized = TRUE]))

-----------------------------------------------------------------------------
Init == /\ msg \in Vectors
        /\ md5 = Initial
        /\ pos = 0

\* Update with the next chunk of the message ("Requires: Finalize() must
\* not have been called").
Update == /\ ~md5.finalized
          /\ \E n \in Chunks :
                /\ pos + n <= Len(msg.text)
                /\ md5' = UpdateOp(md5, SubSeq(msg.text, pos + 1, pos + n))
                /\ pos' = pos + n
          /\ UNCHANGED msg

\* Finalize, after any prefix of the message.  A second call returns at
\* once and changes nothing.
Finalize == /\ ~md5.finalized
            /\ md5' = FinalizeOp(md5)
            /\ UNCHANGED <<msg, pos>>

\* AsHexDigest, AsRawByteArray and operator<< read the digest and change
\* nothing: the caller may read it forever.
Read == md5.finalized /\ UNCHANGED vars

Next == Update \/ Finalize \/ Read

Spec == Init /\ [][Next]_vars

-----------------------------------------------------------------------------
\* RFC 1321, section 3, on a whole message at once: append 0x80, zeros to
\* 56 bytes modulo 64 and the 64-bit bit length, then run Transform on each
\* block in order from the initial state.
RfcPadded(m) ==
    LET zeros == (55 - Len(m)) % 64
    IN m \o <<128>> \o [i \in 1..zeros |-> 0] \o CountBytes(8 * Len(m))
RECURSIVE RfcBlocks(_, _, _)
RfcBlocks(state, p, b) ==
    IF 64 * b >= Len(p) THEN state
    ELSE With(Transform(state, SubSeq(p, 64 * b + 1, 64 * b + 64)),
              LAMBDA n : RfcBlocks(n, p, b + 1))
RfcMd5(m) == Encode(RfcBlocks(InitState, RfcPadded(m), 0))

Byte == 0..255
TypeOK == /\ md5.finalized \in BOOLEAN
          /\ md5.buffer \in [1..kBlockSize -> Byte]
          /\ md5.count \in 0..8 * Len(msg.text)
          /\ pos \in 0..Len(msg.text)

\* Whatever chunks the caller feeds to Update and whenever it calls
\* Finalize, the digest is RFC 1321's MD5 of the bytes fed: the buffering
\* across 64-byte blocks and the padding of Finalize (one block or two)
\* lose, repeat or reorder no byte; and the digest of a whole test
\* message is the one RFC 1321 publishes for it.
DigestMatchesRfc1321 ==
    md5.finalized =>
        /\ md5.digest = RfcMd5(SubSeq(msg.text, 1, pos))
        /\ pos = Len(msg.text) => md5.digest = msg.digest
=============================================================================
