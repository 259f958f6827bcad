---------------------------- MODULE WritableFile ----------------------------
(***************************************************************************)
(* What las-rs may assume of its output: bytes are written at the          *)
(* position, a seek past the end fills the gap with zeros, and a call that *)
(* fails has done a part of its work: it stored some of its bytes, or some *)
(* of the zeros.                                                           *)
(***************************************************************************)
EXTENDS StreamSeek, Sequences

CONSTANTS Writes,  \* the byte sequences that are written
          Old      \* a byte that was there before

VARIABLES data,  \* the bytes from where the stream stood
          pos,
          ret

vars == <<data, pos, ret>>

Zero == 0

\* data with the given bytes stored from position p on.
Patched(d, p, bytes) ==
  [k \in 1 .. (IF p + Len(bytes) > Len(d) THEN p + Len(bytes) ELSE Len(d)) |->
     IF k \in p + 1 .. p + Len(bytes) THEN bytes[k - p] ELSE d[k]]

\* data made at least n bytes long with zeros.
Padded(d, n) == d \o [k \in 1 .. (IF n > Len(d) THEN n - Len(d) ELSE 0) |-> Zero]

Call(op, bytes, offset, origin) == [op |-> op, bytes |-> bytes, offset |-> offset, origin |-> origin]
WriteCall(bytes) == Call("write", bytes, 0, "current")
SeekCall(offset, origin) == Call("seek", <<>>, offset, origin)
FlushCall == Call("flush", <<>>, 0, "current")

Answer(call, position) == [call |-> call, ok |-> TRUE, position |-> position]
Failure(call) == [call |-> call, ok |-> FALSE, position |-> 0]

Init ==
  /\ data \in Seq({Old})
  /\ pos = 0
  /\ ret = Answer(FlushCall, 0)

Write(bytes) ==
  \E k \in 0 .. Len(bytes) :
    /\ data' = Patched(data, pos, SubSeq(bytes, 1, k))
    /\ pos' = pos + k
    /\ \/ ret' = Failure(WriteCall(bytes))
       \/ k = Len(bytes) /\ ret' = Answer(WriteCall(bytes), 0)

Seek(offset, origin) ==
  LET target == SeekBase(origin, pos, Len(data)) + offset
  IN  /\ target \in 0 .. MaxOffset
      /\ data' = Padded(data, target)
      /\ pos' = target
      /\ ret' = Answer(SeekCall(offset, origin), target)

SeekFails(offset, origin) ==
  LET target == SeekBase(origin, pos, Len(data)) + offset
  IN  /\ \E n \in Len(data) .. (IF target > Len(data) THEN target ELSE Len(data)) :
           data' = Padded(data, n)
      /\ pos' \in {pos, Len(data')}
      /\ ret' = Failure(SeekCall(offset, origin))

Flush ==
  /\ ret' \in {Answer(FlushCall, 0), Failure(FlushCall)}
  /\ UNCHANGED <<data, pos>>

Next ==
  \/ \E bytes \in Writes : Write(bytes)
  \/ \E origin \in Origins : \E offset \in Offsets(origin) :
       Seek(offset, origin) \/ SeekFails(offset, origin)
  \/ Flush

Spec == Init /\ [][Next]_vars
=============================================================================
