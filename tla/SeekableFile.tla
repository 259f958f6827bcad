---------------------------- MODULE SeekableFile ----------------------------
(***************************************************************************)
(* What las-rs may assume of its input: Rust's Read + Seek over data of a  *)
(* fixed length.  The position may lie past the end of the data, where     *)
(* reads return nothing.                                                   *)
(*                                                                         *)
(* This is the abstract specification that the C++ stream adapter          *)
(* (InputStream) implements.                                               *)
(***************************************************************************)
EXTENDS StreamCalls

VARIABLES pos,  \* the position, relative to the start of the data
          ret   \* the answer to the last call

vars == <<pos, ret>>

Available == IF pos < Length THEN Length - pos ELSE 0

\* A legal seek lands in the range of a position; it may be past the end.
Target(offset, origin) == SeekBase(origin, pos, Length) + offset
Legal(offset, origin) == Target(offset, origin) \in 0 .. MaxOffset

Init ==
  /\ pos = 0
  /\ ret = Answer(NoCall, 0, 0)

\* A read delivers the bytes at the position and as many as there are.
Read(len) ==
  LET count == IF len < Available THEN len ELSE Available
  IN  /\ ret' = Answer(ReadCall(len), pos, count)
      /\ pos' = pos + count

Seek(offset, origin) ==
  /\ Legal(offset, origin)
  /\ pos' = Target(offset, origin)
  /\ ret' = Answer(SeekCall(offset, origin), pos', 0)

\* A failed call may have moved the position, but only forward inside the
\* data or to its end.
Fail(call) ==
  /\ pos' \in {pos, Length} \cup (pos .. Length)
  /\ ret' = Failure(call)

Next ==
  \/ \E len \in 0 .. MaxRead :
       \/ Read(len)
       \/ Faulty /\ Fail(ReadCall(len))
  \/ \E origin \in Origins : \E offset \in Offsets(origin) :
       \/ Seek(offset, origin)
       \/ (Faulty \/ ~Legal(offset, origin)) /\ Fail(SeekCall(offset, origin))

Spec == Init /\ [][Next]_vars
=============================================================================
