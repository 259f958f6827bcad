-------------------------- MODULE RecoverableFile ---------------------------
(***************************************************************************)
(* What las-rs may still assume of its input once a buffer stands in       *)
(* between: a seekable file whose reads may be short, and whose position   *)
(* is lost by a failed call until a seek from the start or the end of the  *)
(* data succeeds.                                                          *)
(*                                                                         *)
(* This is the abstract specification of BufferedInput.                    *)
(***************************************************************************)
EXTENDS StreamCalls

VARIABLES known,  \* the position, or None after a failure
          ret     \* the answer to the last call

vars == <<known, ret>>

Target(offset, origin) == SeekBase(origin, known, Length) + offset

Init ==
  /\ known = 0
  /\ ret = Answer(NoCall, 0, 0)

\* The bytes at the position, and some of them whenever there are any.
Read(len) ==
  \E count \in 0 .. len :
    /\ known # None
    /\ count <= (IF known < Length THEN Length - known ELSE 0)
    /\ count = 0 => len = 0 \/ known >= Length
    /\ known' = known + count
    /\ ret' = Answer(ReadCall(len), known, count)

Seek(offset, origin) ==
  /\ origin = "current" => known # None
  /\ Target(offset, origin) \in 0 .. MaxOffset
  /\ known' = Target(offset, origin)
  /\ ret' = Answer(SeekCall(offset, origin), known', 0)

\* Without a position a read may deliver any bytes of the data and a relative
\* seek may lead anywhere.
Astray(call) ==
  /\ known = None
  /\ call.op = "seek" => call.origin = "current"
  /\ UNCHANGED known
  /\ ret'.call = call
  /\ ret' \in Answers

Fail(call) ==
  /\ known' = None
  /\ ret' = Failure(call)

Next ==
  \/ \E len \in 0 .. MaxRead :
       \/ Read(len)
       \/ Astray(ReadCall(len))
       \/ Faulty /\ Fail(ReadCall(len))
  \/ \E origin \in Origins : \E offset \in Offsets(origin) :
       \/ Seek(offset, origin)
       \/ Astray(SeekCall(offset, origin))
       \/ /\ Faulty \/ known = None \/ Target(offset, origin) \notin 0 .. MaxOffset
          /\ Fail(SeekCall(offset, origin))

Spec == Init /\ [][Next]_vars
=============================================================================
