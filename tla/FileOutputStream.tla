--------------------------- MODULE FileOutputStream ---------------------------
(***************************************************************************)
(* FileOutputStream of file_output_stream.{h,cc}: a buffered writer over a *)
(* File.  `buf` is buffer_[0 .. buff_data_len_), `open` whether fp_ is     *)
(* set, and `disk` the bytes write(2) has put in the file.  Each public    *)
(* call (Write, Flush, Close and the destructor) is one action; Flush's    *)
(* loop and Write's loop are recursive operators.  The caller's bytes are  *)
(* numbered 1, 2, ... in the order they are passed to Write.  Every        *)
(* write(2) call of an action behaves as the action's fault pattern says:  *)
(* its i-th entry makes the i-th write(2) call write one byte ("short") or *)
(* fail ("fail"), and the calls past the pattern write everything.        *)
(* `accepted` is a history variable: the bytes of the Write calls that     *)
(* returned true.                                                          *)
(***************************************************************************)
EXTENDS Integers, SequencesExt

CONSTANTS BuffSize,    \* buff_size_
          WriteSizes,  \* the sizes passed to Write
          Faults,      \* the fault patterns of one action's write(2) calls
          MaxErrors,   \* bound on failed write(2) calls
          MaxCalls     \* bound on calls

VARIABLES buf, open, disk, sent, accepted, errors, calls, destroyed

vars == <<buf, open, disk, sent, accepted, errors, calls, destroyed>>

\* write(2) of n bytes under the c-th entry of a fault pattern.
SysWrite(n, env, c) ==
  CASE c <= Len(env) /\ env[c] = "fail"          -> -1
    [] c <= Len(env) /\ env[c] = "short" /\ n > 1 -> 1
    [] OTHER                                      -> n

\* Flush's loop writing the whole buffer again after a short write
\* instead of its rest.
FlushLoopNoAdvance(b, d, begin, ret, c, env) ==
  IF ret >= Len(b) - begin THEN [ok |-> TRUE, buf |-> <<>>, disk |-> d, c |-> c]
  ELSE IF ret < 0 THEN [ok |-> FALSE, buf |-> b, disk |-> d, c |-> c]
  ELSE LET w == SysWrite(Len(b), env, c)
       IN  [ok |-> w >= Len(b), buf |-> IF w >= Len(b) THEN <<>> ELSE b,
            disk |-> d \o SubSeq(b, 1, Max({w, 0})), c |-> c + 1]

\* Flush's loop: write buffer_[begin ..) until all of it is written; on a
\* failed write(2) return false with buff_data_len_ unchanged, so that the
\* bytes already written stay in the buffer.  `c` numbers write(2) calls.
RECURSIVE FlushLoop(_, _, _, _, _, _)
FlushLoop(b, d, begin, ret, c, env) ==
  IF ret >= Len(b) - begin THEN [ok |-> TRUE, buf |-> <<>>, disk |-> d, c |-> c]
  ELSE IF ret < 0 THEN [ok |-> FALSE, buf |-> b, disk |-> d, c |-> c]
  ELSE LET from == begin + ret
           w    == SysWrite(Len(b) - from, env, c)
       IN  FlushLoop(b, d \o SubSeq(b, from + 1, from + Max({w, 0})), from, w, c + 1, env)

\* Flush() with the buffer `b` and the file `d`, its first write(2) being
\* the c-th of the action.
Flush(b, d, c, env) ==
  LET w == SysWrite(Len(b), env, c)
  IN  FlushLoop(b, d \o SubSeq(b, 1, Max({w, 0})), 0, w, c + 1, env)

\* Write's loop for data that does not fit: flush, then copy up to
\* buff_size_ bytes, until all is copied.
RECURSIVE WriteLoop(_, _, _, _, _)
WriteLoop(b, d, data, c, env) ==
  IF data = <<>> THEN [ok |-> TRUE, buf |-> b, disk |-> d]
  ELSE LET f == Flush(b, d, c, env)
           n == Min({Len(data), BuffSize})
       IN  IF ~f.ok THEN [ok |-> FALSE, buf |-> f.buf, disk |-> f.disk]
           ELSE WriteLoop(SubSeq(data, 1, n), f.disk, SubSeq(data, n + 1, Len(data)), f.c, env)

\* Write(buff, size) with the bytes `data`.
Write(b, d, data, env) ==
  IF Len(data) <= BuffSize - Len(b) THEN [ok |-> TRUE, buf |-> b \o data, disk |-> d]
  ELSE WriteLoop(b, d, data, 1, env)

-----------------------------------------------------------------------------
\* Open on a new file ("w"): the constructor's state.
Init == /\ buf = <<>> /\ open = TRUE /\ disk = <<>>
        /\ sent = 0 /\ accepted = <<>> /\ errors = 0 /\ calls = 0 /\ destroyed = FALSE

\* The fault patterns the environment may still use.
Env == {env \in Faults : errors < MaxErrors \/ \A i \in 1 .. Len(env) : env[i] # "fail"}

\* A call on a closed stream goes through the null fp_; callers do not
\* make one, so every call below requires `open`.
Ready == open /\ ~destroyed /\ calls < MaxCalls

\* Write: the caller's next `size` bytes.  A false return counts as an
\* error only when a write(2) failed, which is the only way it happens.
WriteCall ==
  /\ Ready
  /\ \E size \in WriteSizes, env \in Env :
       LET data == [i \in 1 .. size |-> sent + i]
           r    == Write(buf, disk, data, env)
       IN  /\ buf' = r.buf /\ disk' = r.disk /\ sent' = sent + size
           /\ accepted' = IF r.ok THEN accepted \o data ELSE accepted
           /\ errors' = IF r.ok THEN errors ELSE errors + 1
           /\ calls' = calls + 1 /\ UNCHANGED <<open, destroyed>>

\* Flush() called by the user.
FlushCall ==
  /\ Ready
  /\ \E env \in Env :
       LET r == Flush(buf, disk, 1, env)
       IN  /\ buf' = r.buf /\ disk' = r.disk
           /\ errors' = IF r.ok THEN errors ELSE errors + 1
           /\ calls' = calls + 1 /\ UNCHANGED <<open, sent, accepted, destroyed>>

\* Close(): Flush, close(2), reset fp_.  Bytes Flush failed to write stay
\* in buffer_ and are never written.
CloseOp(env) ==
  LET r == Flush(buf, disk, 1, env)
  IN  /\ buf' = r.buf /\ disk' = r.disk /\ open' = FALSE
      /\ errors' = IF r.ok THEN errors ELSE errors + 1

CloseCall == Ready /\ \E env \in Env : CloseOp(env) /\ calls' = calls + 1
                   /\ UNCHANGED <<sent, accepted, destroyed>>

\* The destructor: Close() if fp_ is still set.
Destroy == /\ ~destroyed /\ destroyed' = TRUE
           /\ IF open THEN \E env \in Env : CloseOp(env)
              ELSE UNCHANGED <<buf, open, disk, errors>>
           /\ UNCHANGED <<sent, accepted, calls>>

Finished == destroyed /\ UNCHANGED vars

Next == WriteCall \/ FlushCall \/ CloseCall \/ Destroy \/ Finished

Spec == Init /\ [][Next]_vars

-----------------------------------------------------------------------------
TypeOK == /\ buf \in Seq(Nat) /\ Len(buf) <= BuffSize /\ open \in BOOLEAN
          /\ disk \in Seq(Nat) /\ sent \in Nat /\ accepted \in Seq(Nat)
          /\ errors \in 0 .. MaxErrors /\ calls \in 0 .. MaxCalls
          /\ destroyed \in BOOLEAN

\* While no write(2) has failed, the file followed by the buffer holds
\* exactly the bytes of the successful Write calls, in order, each once,
\* whatever short writes Flush met; and once the object is destroyed the
\* file alone holds them (the destructor flushes).
FileHoldsAcceptedBytes ==
  errors = 0 => /\ disk \o buf = accepted
                /\ destroyed => disk = accepted
=============================================================================
