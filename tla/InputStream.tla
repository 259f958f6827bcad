---------------------------- MODULE InputStream -----------------------------
(***************************************************************************)
(* The input adapter of include/lasrs/stream.hpp: Read + Seek for las-rs   *)
(* over the buffer of a std::istream, called through the C callbacks that  *)
(* rust/src/stream.rs wraps.                                               *)
(*                                                                         *)
(* A stream buffer cannot stand past its end, so the adapter keeps such a  *)
(* position in past_end_.  Positions are relative to start_, where the     *)
(* stream stood when the adapter was made.  Asking the buffer for its end  *)
(* moves it there: after the two queries of seek the buffer is at its end, *)
(* whatever happens next.                                                  *)
(*                                                                         *)
(* The buffer itself is external.  With Faulty its calls may fail or       *)
(* throw, a throwing read after having consumed some of the bytes.         *)
(***************************************************************************)
EXTENDS StreamCalls

CONSTANT Start  \* start_, an absolute position of the buffer

ASSUME StartAssumption == Start \in Nat /\ Start + Length <= MaxOffset

VARIABLES getPos,    \* the get position of buffer_, absolute
          past_end,  \* past_end_, or None
          ret        \* the answer Rust gets

vars == <<getPos, past_end, ret>>

StreamEnd == Start + Length

\* Where the adapter stands, as Rust sees it.
Position == IF past_end # None THEN past_end ELSE getPos - Start

\* The constructor: the stream is usable and stands at start_.
Init ==
  /\ getPos = Start
  /\ past_end = None
  /\ ret = Answer(NoCall, 0, 0)

-----------------------------------------------------------------------------
(* read *)

\* Bytes sgetn(len) delivers: all it is asked for, or what is left.
Sgetn(len) == IF len < StreamEnd - getPos THEN len ELSE StreamEnd - getPos

ReadPastEnd(len) ==
  /\ past_end # None
  /\ ret' = Answer(ReadCall(len), past_end, 0)
  /\ UNCHANGED <<getPos, past_end>>

ReadBuffer(len) ==
  /\ past_end = None
  /\ getPos' = getPos + Sgetn(len)
  /\ ret' = Answer(ReadCall(len), getPos - Start, Sgetn(len))
  /\ UNCHANGED past_end

\* sgetn throws; what it had consumed stays consumed.
ReadThrows(len) ==
  /\ Faulty
  /\ past_end = None
  /\ \E consumed \in 0 .. Sgetn(len) : getPos' = getPos + consumed
  /\ ret' = Failure(ReadCall(len))
  /\ UNCHANGED past_end

Read(len) == ReadPastEnd(len) \/ ReadBuffer(len) \/ ReadThrows(len)

-----------------------------------------------------------------------------
(* seek *)

\* seek_with refuses a SeekFrom::Start that is no i64 before calling the adapter.
SeekUnrepresentable(call) ==
  /\ call.arg > MaxOffset
  /\ ret' = Failure(call)
  /\ UNCHANGED <<getPos, past_end>>

\* One of the position queries fails; the second may have moved the buffer.
SeekQueryFails(call) ==
  /\ Faulty
  /\ getPos' \in {getPos, StreamEnd}
  /\ ret' = Failure(call)
  /\ UNCHANGED past_end

SeekNoTarget(call, target) ==
  /\ target = None
  /\ getPos' = StreamEnd
  /\ ret' = Failure(call)
  /\ UNCHANGED past_end

SeekPastEnd(call, target) ==
  /\ target > StreamEnd - Start
  /\ getPos' = StreamEnd
  /\ past_end' = target
  /\ ret' = Answer(call, target, 0)

\* pubseekpos comes after past_end_ was reset and may fail.
SeekInside_KeepsPastEnd(call, target) ==
  /\ target # None
  /\ target <= StreamEnd - Start
  /\ getPos' = Start + target
  /\ ret' = Answer(call, target, 0)
  /\ UNCHANGED past_end

SeekInside(call, target) ==
  /\ target # None
  /\ target <= StreamEnd - Start
  /\ past_end' = None
  /\ \/ /\ getPos' = Start + target
        /\ ret' = Answer(call, target, 0)
     \/ /\ Faulty
        /\ getPos' = StreamEnd
        /\ ret' = Failure(call)

SeekAdapter_FromBuffer(call) ==
  LET target == SeekTarget(call.arg, call.origin, getPos - Start, StreamEnd - Start)
  IN  /\ call.arg <= MaxOffset
      /\ \/ SeekNoTarget(call, target)
         \/ SeekPastEnd(call, target)
         \/ SeekInside(call, target)

SeekAdapter(call) ==
  LET target == SeekTarget(call.arg, call.origin, Position, StreamEnd - Start)
  IN  /\ call.arg <= MaxOffset
      /\ \/ SeekQueryFails(call)
         \/ SeekNoTarget(call, target)
         \/ SeekPastEnd(call, target)
         \/ SeekInside(call, target)

Seek(call) == SeekUnrepresentable(call) \/ SeekAdapter(call)

-----------------------------------------------------------------------------
Next ==
  \/ \E len \in 0 .. MaxRead : Read(len)
  \/ \E origin \in Origins : \E offset \in Offsets(origin) : Seek(SeekCall(offset, origin))

Spec == Init /\ [][Next]_vars

-----------------------------------------------------------------------------
(* Properties *)

\* The type of the state: the get position stays between start_ and the end
\* of the buffer, and past_end_ is a position a std::streamoff can hold.
TypeOK ==
  /\ getPos \in Start .. StreamEnd
  /\ past_end \in {None} \cup (0 .. MaxOffset)
  /\ ret \in Answers

\* past_end_ is only ever a position past the data, and while it is set the
\* buffer waits at its end: the position kept in the adapter and the one kept
\* in the buffer never contradict each other (stream.hpp, seek).
PastEndConsistent == past_end # None => past_end > Length /\ getPos = StreamEnd

File == INSTANCE SeekableFile WITH pos <- Position

\* The adapter is a seekable file: each call it answers with success answers
\* and moves as a file does, also past the end, each illegal seek fails, and a
\* failed call leaves the position in the data or where it was.
ImplementsFile == File!Spec
=============================================================================
