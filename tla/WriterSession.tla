---------------------------- MODULE WriterSession ---------------------------
(***************************************************************************)
(* The life of a stream-based las::Writer (include/lasrs/writer.hpp,       *)
(* rust/src/writer.rs): construction, write_point, close and destruction,  *)
(* down to the bytes that reach the std::ostream.  Between las-rs and the  *)
(* adapter sits the BufWriter of rust/src/stream.rs, which delays errors,  *)
(* and which tries a failed buffer again as a whole.                       *)
(*                                                                         *)
(* las-rs and BufWriter are external.  A las-rs writer puts a header at    *)
(* its start, appends points, and on close goes back to write the header   *)
(* with the final number of points; a closed writer refuses further calls; *)
(* dropping an open one closes it, and its panic over a failed close is    *)
(* caught by guard.  A header or a point takes one byte.                   *)
(***************************************************************************)
EXTENDS OutputCalls

CONSTANTS Capacity,   \* of the BufWriter
          Points,     \* the bytes of points
          MaxPoints   \* bound on the number of points written

ASSUME WriterAssumption ==
  /\ Capacity \in Nat \ {0}
  /\ MaxPoints \in Nat
  /\ Points \subseteq Nat

HeaderOf(n) == -(n + 1)

VARIABLES
  buf,     \* bytes in the BufWriter
  phase,   \* of the writer: "none", "open", "closed" or "freed"
  count,   \* number of points in the header of las-rs
  points,  \* history: points whose write was reported a success
  failed,  \* history: some call has failed
  status   \* the status of the last call

vars == <<dev, buf, phase, count, points, failed, status>>

Init ==
  /\ dev \in {NewDevice(size, room) : size \in Sizes, room \in Rooms}
  /\ buf = <<>>
  /\ phase = "none"
  /\ count = 0
  /\ points = <<>>
  /\ failed = FALSE
  /\ status = "ok"

-----------------------------------------------------------------------------
(* BufWriter (external): sets of outcomes [dev, buf, ok] *)

Result(d, b, ok) == [dev |-> d, buf |-> b, ok |-> ok]

\* F goes on where the outcomes are a success.
AndThen(outcomes, F(_, _)) == UNION {IF o.ok THEN F(o.dev, o.buf) ELSE {o} : o \in outcomes}

\* A failed write of the buffer keeps all of it, also what was stored.
FlushBuf(d, b) ==
  IF b = <<>> THEN {Result(d, b, TRUE)}
  ELSE {Result(o.dev, IF o.ok THEN <<>> ELSE b, o.ok) : o \in WriteCall(d, b)}

BufWrite(d, b, bytes) ==
  LET spare == Capacity - Len(b)
      put(d2, b2) == IF Len(bytes) >= Capacity
                     THEN {Result(o.dev, b2, o.ok) : o \in WriteCall(d2, bytes)}
                     ELSE {Result(d2, b2 \o bytes, TRUE)}
  IN  IF Len(bytes) > spare THEN AndThen(FlushBuf(d, b), put) ELSE put(d, b)

BufSeek(d, b, offset, origin) ==
  LET inner(d2, b2) == {Result(o.dev, b2, o.ok) : o \in SeekCall(d2, offset, origin)}
  IN  AndThen(FlushBuf(d, b), inner)

-----------------------------------------------------------------------------
(* las-rs (external) *)

LasNew(d) ==
  LET header(d2, b2) == BufWrite(d2, b2, <<HeaderOf(0)>>)
  IN  AndThen(BufSeek(d, <<>>, 0, "current"), header)

LasClose(d, b, n) ==
  LET toEnd(d2, b2) == BufSeek(d2, b2, 0, "end")
      header(d2, b2) == AndThen(BufWrite(d2, b2, <<HeaderOf(n)>>), toEnd)
  IN  AndThen(BufSeek(d, b, 0, "start"), header)

\* Drop: close if still open, then the BufWriter flushes what it holds.
LasDrop_ClosesAgain(d, b, n, open) == LasClose(d, b, 0)

LasDrop(d, b, n, open) ==
  LET closed == IF open THEN LasClose(d, b, n) ELSE {Result(d, b, TRUE)}
  IN  UNION {{Result(f.dev, f.buf, f.ok /\ c.ok) : f \in FlushBuf(c.dev, c.buf)} : c \in closed}

-----------------------------------------------------------------------------
(* las::Writer *)

Reported(ok) ==
  /\ status' = IF ok THEN "ok" ELSE "error"
  /\ failed' = (failed \/ ~ok)

\* The constructor; when it throws, the BufWriter that Rust drops still flushes.
New ==
  /\ phase = "none"
  /\ \E o \in LasNew(dev) :
       /\ Reported(o.ok)
       /\ \/ /\ o.ok
             /\ dev' = o.dev /\ buf' = o.buf /\ phase' = "open"
          \/ /\ ~o.ok
             /\ \E f \in FlushBuf(o.dev, o.buf) : dev' = f.dev
             /\ buf' = <<>> /\ phase' = "freed"
  /\ UNCHANGED <<count, points>>

\* An error may come before or after las-rs counted the point.
WritePoint(p) ==
  /\ phase = "open"
  /\ Len(points) < MaxPoints
  /\ count < MaxPoints
  /\ \E o \in BufWrite(dev, buf, <<p>>) :
       /\ dev' = o.dev /\ buf' = o.buf
       /\ Reported(o.ok)
       /\ points' = IF o.ok THEN Append(points, p) ELSE points
       /\ count' \in IF o.ok THEN {count + 1} ELSE {count, count + 1}
  /\ UNCHANGED phase

\* write_point and close of a closed writer are errors.
RefusedWhenClosed ==
  /\ phase = "closed"
  /\ status' = "error"
  /\ UNCHANGED <<dev, buf, phase, count, points, failed>>

\* A failed close leaves the writer open.
Close ==
  /\ phase = "open"
  /\ \E o \in LasClose(dev, buf, count) :
       /\ dev' = o.dev /\ buf' = o.buf
       /\ Reported(o.ok)
       /\ phase' = IF o.ok THEN "closed" ELSE "open"
  /\ UNCHANGED <<count, points>>

\* The destructor; lasrs_writer_free reports, but no one listens.
Free ==
  /\ phase \in {"open", "closed"}
  /\ \E o \in LasDrop(dev, buf, count, phase = "open") :
       /\ dev' = o.dev
       /\ failed' = (failed \/ ~o.ok)
  /\ buf' = <<>>
  /\ phase' = "freed"
  /\ UNCHANGED <<count, points, status>>

\* The environment: space becomes free on a full device.
RoomFreed ==
  /\ \E room \in Rooms : room > dev.room /\ dev' = [dev EXCEPT !.room = room]
  /\ UNCHANGED <<buf, phase, count, points, failed, status>>

Next ==
  \/ New
  \/ \E p \in Points : WritePoint(p)
  \/ RefusedWhenClosed \/ Close \/ Free \/ RoomFreed

Spec == Init /\ [][Next]_vars

-----------------------------------------------------------------------------
(* Properties *)

\* The file in the stream: the header with the number of points, and the points.
Complete ==
  LET file == <<HeaderOf(Len(points))>> \o points
  IN  /\ Len(dev.content) >= Start + Len(file)
      /\ SubSeq(dev.content, Start + 1, Start + Len(file)) = file

\* "Destroying an open writer closes it; call close() to observe errors"
\* (writer.hpp): once a writer is closed, or destroyed, either its whole file
\* is in the stream, or some call on it or its destruction failed.  Nothing is
\* lost in a buffer by a sequence of successes, though an error comes later
\* than the call it belongs to.
NoSilentLoss == phase \in {"closed", "freed"} /\ ~failed => Complete

\* A closed writer is done with its stream: calls on it and its destruction
\* change no byte.
ClosedIsFinal == [][phase = "closed" => dev'.content = dev.content]_vars
=============================================================================
