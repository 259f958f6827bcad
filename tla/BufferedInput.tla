--------------------------- MODULE BufferedInput ----------------------------
(***************************************************************************)
(* The std::io::BufReader that InputStream::buffered of rust/src/stream.rs *)
(* puts between las-rs and the C++ input adapter, on top of that adapter.  *)
(*                                                                         *)
(* BufReader is external.  Its buffer holds the `rem' bytes of the data    *)
(* from `from' on that nobody has read yet.  When the adapter is where the *)
(* buffer was filled, it is at from + rem.  A seek that fails leaves the   *)
(* buffer alone although the adapter may have gone to the end of its data, *)
(* and then the two disagree.                                              *)
(***************************************************************************)
EXTENDS InputStream

CONSTANT Capacity  \* of the buffer

ASSUME CapacityAssumption == Capacity \in 1 .. MaxRead

VARIABLES from, rem,   \* the unread part of the buffer
          pending,     \* the rest of a seek done in two steps, or 0
          lost,        \* history: a call failed since the last absolute seek
          answer       \* what las-rs gets; ret is what the buffer gets

allVars == <<vars, from, rem, pending, lost, answer>>

Least(a, b) == IF a < b THEN a ELSE b

BufferedInit ==
  /\ Init
  /\ from = 0 /\ rem = 0 /\ pending = 0 /\ lost = FALSE
  /\ answer = ret

Failed(call) ==
  /\ answer' = Failure(call)
  /\ lost' = TRUE

-----------------------------------------------------------------------------
(* read *)

FromBuffer(len) ==
  /\ rem > 0
  /\ answer' = Answer(ReadCall(len), from, Least(len, rem))
  /\ from' = from + Least(len, rem)
  /\ rem' = rem - Least(len, rem)
  /\ UNCHANGED <<vars, lost>>

\* An empty buffer is passed by when the read is at least as large.
Bypass(len) ==
  /\ rem = 0
  /\ len >= Capacity
  /\ Read(len)
  /\ answer' = ret'
  /\ lost' = (lost \/ ~ret'.ok)
  /\ UNCHANGED <<from, rem>>

Fill(len) ==
  /\ rem = 0
  /\ len < Capacity
  /\ Read(Capacity)
  /\ \/ /\ ret'.ok
        /\ answer' = Answer(ReadCall(len), ret'.from, Least(len, ret'.count))
        /\ from' = ret'.from + answer'.count
        /\ rem' = ret'.count - answer'.count
        /\ UNCHANGED lost
     \/ ~ret'.ok /\ Failed(ReadCall(len)) /\ UNCHANGED <<from, rem>>

BufferedRead(len) ==
  /\ pending = 0
  /\ FromBuffer(len) \/ Bypass(len) \/ Fill(len)
  /\ UNCHANGED pending

-----------------------------------------------------------------------------
(* seek and stream_position *)

\* The last step of a seek: the buffer is discarded, but only on success.
Finish_KeepsBuffer(call) ==
  \/ ret'.ok /\ answer' = Answer(call, ret'.from, 0) /\ UNCHANGED <<rem, lost>>
  \/ ~ret'.ok /\ Failed(call) /\ UNCHANGED rem

Finish(call) ==
  \/ /\ ret'.ok
     /\ rem' = 0
     /\ lost' = (lost /\ call.origin = "current")
     /\ answer' = Answer(call, ret'.from, 0)
  \/ /\ ~ret'.ok
     /\ Failed(call)
     /\ UNCHANGED rem

\* A relative seek counts from the unread byte, not from the adapter's position.
Adjusted_Unread(call) == call.arg

Adjusted(call) == IF call.origin = "current" THEN call.arg - rem ELSE call.arg

BufferedSeek(call) ==
  /\ pending = 0
  /\ Adjusted(call) \in Offsets(call.origin)
  /\ Seek(SeekCall(Adjusted(call), call.origin))
  /\ Finish(call)
  /\ UNCHANGED <<from, pending>>

\* The adjusted offset is no i64: first back by what is buffered, then on.
SeekBack(call) ==
  /\ pending = 0
  /\ Adjusted(call) \notin Offsets(call.origin)
  /\ Seek(SeekCall(-rem, "current"))
  /\ \/ ret'.ok /\ rem' = 0 /\ pending' = call.arg /\ UNCHANGED <<answer, lost>>
     \/ ~ret'.ok /\ Failed(call) /\ UNCHANGED <<rem, pending>>
  /\ UNCHANGED from

SeekOn ==
  /\ pending # 0
  /\ Seek(SeekCall(pending, "current"))
  /\ Finish(SeekCall(pending, "current"))
  /\ pending' = 0
  /\ UNCHANGED from

\* Asks the adapter for its position and subtracts; the buffer is kept.
StreamPosition ==
  /\ pending = 0
  /\ Seek(SeekCall(0, "current"))
  /\ \/ ret'.ok /\ answer' = Answer(SeekCall(0, "current"), ret'.from - rem, 0) /\ UNCHANGED lost
     \/ ~ret'.ok /\ Failed(SeekCall(0, "current"))
  /\ UNCHANGED <<from, rem, pending>>

-----------------------------------------------------------------------------
BufferedNext ==
  \/ \E len \in 0 .. MaxRead : BufferedRead(len)
  \/ \E origin \in Origins : \E offset \in Offsets(origin) :
       BufferedSeek(SeekCall(offset, origin)) \/ SeekBack(SeekCall(offset, origin))
  \/ SeekOn
  \/ StreamPosition

BufferedSpec == BufferedInit /\ [][BufferedNext]_allVars

-----------------------------------------------------------------------------
(* Properties *)

\* stream_position subtracts what is buffered from the adapter's position and
\* panics when that wraps (limits.rs asks for it before las-rs reads).  It never
\* does, although failed seeks leave the buffer behind: what is buffered is part
\* of the data, and the adapter is never in front of it.
PositionNeverWraps == rem <= Position /\ (rem > 0 => from + rem <= Length)

Known == INSTANCE RecoverableFile WITH
  known <- IF lost THEN None ELSE Position - rem, ret <- answer

\* Through the buffer las-rs still has a file: reads deliver the bytes at the
\* position that seeks and earlier reads led to, also after relative seeks out
\* of a half-read buffer.  Only after a failed call the stale buffer may be
\* read, and the next absolute seek that succeeds ends that.
ImplementsRecoverableFile == Known!Spec
=============================================================================
