--------------------------- MODULE FileInputStream ----------------------------
(***************************************************************************)
(* FileInputStream of file_input_stream.{h,cc}: a buffered reader over a   *)
(* File.  The stream's state is `stream`: the bytes buffer_[0 ..           *)
(* buff_data_len_) as `buf`, buff_ptr_ as `ptr`, reached_eof_ as `eof`,    *)
(* the file offset of the descriptor as `fpos`, and whether fp_ is set as  *)
(* `open`.  Each public call (Read, ReadLine, ReadGeneric<T>, Close) is    *)
(* one action; the loops inside them are recursive operators.  read(2) is  *)
(* that of a regular file: it returns min(request, bytes left), or -1      *)
(* when the environment makes the f-th read(2) call of the action fail.    *)
(* A failed CHECK or a call through the null fp_ aborts the process:      *)
(* `crashed`.  `got` is a history variable: the bytes the calls returned  *)
(* to the caller as successfully read, in order.                          *)
(***************************************************************************)
EXTENDS Integers, SequencesExt

CONSTANTS Files,        \* the file contents the stream may be opened on
          BuffSize,     \* buff_size_
          ReadSizes,    \* the sizes passed to Read
          GenericSizes, \* sizeof(T) of ReadGeneric<T>
          LF, CR,       \* the bytes '\n' and '\r'
          MaxErrors,    \* bound on failed read(2) calls
          MaxCalls,     \* bound on calls
          MaxSysCalls   \* bound on the read(2) calls of one action

VARIABLES file, stream, got, errors, calls, crashed

vars == <<file, stream, got, errors, calls, crashed>>

\* The outcome of a call: its return value, the new stream state, the bytes
\* it delivered, whether a read(2) failed and whether the process aborted.
Out(ret, s, out, failed) == [ret |-> ret, s |-> s, out |-> out, failed |-> failed, crash |-> FALSE]
Abort(s) == [ret |-> -1, s |-> s, out |-> <<>>, failed |-> FALSE, crash |-> TRUE]

\* A RefillBuffer that starts the buffer afresh instead of moving the
\* unread bytes to the front.
RefillBufferDropsRest(s, fail) ==
  LET n == Min({BuffSize, Len(file) - s.fpos})
      fresh == [s EXCEPT !.buf = <<>>, !.ptr = 0]
  IN  CASE s.eof   -> Out(TRUE, s, <<>>, FALSE)
        [] ~s.open -> Abort(s)
        [] fail    -> Out(FALSE, fresh, <<>>, TRUE)
        [] n = 0   -> Out(TRUE, [fresh EXCEPT !.eof = TRUE], <<>>, FALSE)
        [] OTHER   -> Out(TRUE, [fresh EXCEPT !.buf = SubSeq(file, s.fpos + 1, s.fpos + n),
                                             !.fpos = s.fpos + n], <<>>, FALSE)

\* RefillBuffer: move the unread bytes to the front (CHECK_LE(len,
\* buff_ptr_) first), then read(2) the rest of the buffer; EOF is recorded
\* only when no byte is left.  `fail` makes this read(2) return -1.
RefillBuffer(s, fail) ==
  LET rem  == Len(s.buf) - s.ptr
      kept == [s EXCEPT !.buf = SubSeq(s.buf, s.ptr + 1, Len(s.buf)), !.ptr = 0]
      n    == Min({BuffSize - rem, Len(file) - s.fpos})
  IN  CASE s.eof                -> Out(TRUE, s, <<>>, FALSE)
        [] rem > 0 /\ rem > s.ptr -> Abort(s)
        [] ~s.open              -> Abort(s)
        [] fail                 -> Out(FALSE, kept, <<>>, TRUE)
        [] n = 0                -> Out(TRUE, [kept EXCEPT !.eof = (rem = 0)], <<>>, FALSE)
        [] OTHER                -> Out(TRUE, [kept EXCEPT !.buf = @ \o SubSeq(file, s.fpos + 1, s.fpos + n),
                                                     !.fpos = s.fpos + n], <<>>, FALSE)

\* Read's loop: refill when the buffer is used up, return -1 on a failed
\* refill (the bytes already copied are dropped), the count so far at EOF,
\* and stop after a short refill.
RECURSIVE ReadLoop(_, _, _, _, _)
ReadCopy(s, size, out, more) ==
  LET n == Min({size, Len(s.buf) - s.ptr})
  IN  [s |-> [s EXCEPT !.ptr = @ + n], size |-> size - n,
       out |-> out \o SubSeq(s.buf, s.ptr + 1, s.ptr + n), more |-> more]
ReadLoop(s, size, out, c, f) ==
  IF size = 0 THEN Out(Len(out), s, out, FALSE)
  ELSE IF s.ptr < Len(s.buf)
       THEN LET k == ReadCopy(s, size, out, TRUE)
            IN  ReadLoop(k.s, k.size, k.out, c, f)
       ELSE LET r == RefillBuffer(s, c = f)
            IN  CASE r.crash  -> r
                  [] ~r.ret   -> Out(-1, r.s, <<>>, TRUE)
                  [] r.s.eof  -> Out(Len(out), r.s, out, FALSE)
                  [] OTHER    ->
                       LET k == ReadCopy(r.s, size, out, Len(r.s.buf) >= BuffSize)
                       IN  IF k.more THEN ReadLoop(k.s, k.size, k.out, c + 1, f)
                           ELSE Out(Len(k.out), k.s, k.out, FALSE)

\* Read(buff, size).
Read(s, size, f) ==
  IF Len(s.buf) - s.ptr >= size
  THEN Out(size, [s EXCEPT !.ptr = @ + size], SubSeq(s.buf, s.ptr + 1, s.ptr + size), FALSE)
  ELSE ReadLoop(s, size, <<>>, 1, f)

\* ReadLine's loop: take the bytes up to the next '\n' of the buffer, or
\* all of them and refill; at EOF an empty line is a failure.  A failed
\* refill loses the part of the line already taken.
StripCR(line) == IF line # <<>> /\ Last(line) = CR THEN Front(line) ELSE line
RECURSIVE LineLoop(_, _, _, _)
LineLoop(s, line, c, f) ==
  LET nl == {i \in s.ptr + 1 .. Len(s.buf) : s.buf[i] = LF}
  IN  IF nl # {}
      THEN LET i == Min(nl)
               l == StripCR(line \o SubSeq(s.buf, s.ptr + 1, i - 1))
           IN  Out(TRUE, [s EXCEPT !.ptr = i], l, FALSE)
      ELSE LET l2 == line \o SubSeq(s.buf, s.ptr + 1, Len(s.buf))
               r  == RefillBuffer([s EXCEPT !.ptr = Len(s.buf)], c = f)
           IN  CASE r.crash -> r
                 [] ~r.ret  -> Out(FALSE, r.s, <<>>, TRUE)
                 [] r.s.eof -> IF l2 = <<>> THEN Out(FALSE, r.s, <<>>, FALSE)
                               ELSE Out(TRUE, r.s, StripCR(l2), FALSE)
                 [] OTHER   -> LineLoop(r.s, l2, c + 1, f)

\* ReadLine(line).
ReadLine(s, f) == IF s.eof THEN Out(FALSE, s, <<>>, FALSE) ELSE LineLoop(s, <<>>, 1, f)

\* ReadGeneric<T>(value) with sizeof(T) = k: refill once when fewer than k
\* bytes are buffered, and fail on error, EOF or a still short buffer.
ReadGeneric(s, k, f) ==
  LET Take(t) == Out(TRUE, [t EXCEPT !.ptr = @ + k], SubSeq(t.buf, t.ptr + 1, t.ptr + k), FALSE)
      r == RefillBuffer(s, f = 1)
  IN  IF Len(s.buf) - s.ptr >= k THEN Take(s)
      ELSE CASE r.crash -> r
             [] ~r.ret \/ r.s.eof \/ Len(r.s.buf) - r.s.ptr < k -> Out(FALSE, r.s, <<>>, ~r.ret)
             [] OTHER -> Take(r.s)

-----------------------------------------------------------------------------
\* Open on a file that exists: the constructor's state.
Init == /\ file \in Files
        /\ stream = [buf |-> <<>>, ptr |-> 0, eof |-> FALSE, fpos |-> 0, open |-> TRUE]
        /\ got = <<>> /\ errors = 0 /\ calls = 0 /\ crashed = FALSE

\* Which read(2) call of an action fails: 0 for none.
FailAt == IF errors < MaxErrors THEN 0 .. MaxSysCalls ELSE {0}

Apply(r) == IF r.crash THEN crashed' = TRUE /\ UNCHANGED <<file, stream, got, errors, calls>>
            ELSE /\ stream' = r.s /\ got' = got \o r.out
                 /\ errors' = errors + (IF r.failed THEN 1 ELSE 0)
                 /\ calls' = calls + 1 /\ UNCHANGED <<file, crashed>>

Ready == ~crashed /\ calls < MaxCalls

ReadCall == Ready /\ \E size \in ReadSizes, f \in FailAt : Apply(Read(stream, size, f))
ReadLineCall == Ready /\ \E f \in FailAt : Apply(ReadLine(stream, f))
ReadGenericCall == Ready /\ \E k \in GenericSizes, f \in FailAt : Apply(ReadGeneric(stream, k, f))

\* Close: fp_->Close() through a null fp_ aborts.
Close == Ready /\ Apply(IF stream.open THEN Out(TRUE, [stream EXCEPT !.open = FALSE], <<>>, FALSE)
                        ELSE Abort(stream))

\* The process stops after an abort or its last call.
Done == (crashed \/ calls = MaxCalls) /\ UNCHANGED vars

Next == ReadCall \/ ReadLineCall \/ ReadGenericCall \/ Close \/ Done

Spec == Init /\ [][Next]_vars

-----------------------------------------------------------------------------
Byte == {LF, CR} \cup UNION {Range(t) : t \in Files}

TypeOK == /\ file \in Files
          /\ stream.buf \in Seq(Byte) /\ Len(stream.buf) <= BuffSize
          /\ stream.ptr \in 0 .. Len(stream.buf) /\ stream.fpos \in 0 .. Len(file)
          /\ stream.eof \in BOOLEAN /\ stream.open \in BOOLEAN
          /\ got \in Seq(Byte) /\ errors \in 0 .. MaxErrors
          /\ calls \in 0 .. MaxCalls /\ crashed \in BOOLEAN

\* A file's data bytes are distinct and increase with their offset (the
\* .cfg's files say so); '\n' and '\r' are not data.
IsData(b) == b \notin {LF, CR}

\* The bytes the calls return are the file's data bytes in file order, each
\* at most once; while no read(2) has failed no data byte is skipped, and
\* once reached_eof_ is set every data byte has been returned.  The
\* buffer compaction of RefillBuffer, Read's loop, ReadLine's search and
\* ReadGeneric's short buffer all bear on it.
DeliveredInFileOrder ==
  LET data == SelectSeq(got, IsData)
      all  == SelectSeq(file, IsData)
  IN  /\ \A i \in 1 .. Len(data) - 1 : data[i] < data[i + 1]
      /\ errors = 0 /\ data # <<>> => IsPrefix(data, all)
      /\ errors = 0 /\ stream.eof => data = all
=============================================================================
