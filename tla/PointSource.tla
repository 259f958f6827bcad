----------------------------- MODULE PointSource ----------------------------
(***************************************************************************)
(* What las::Reader promises of its points: a call reads, in one step, the *)
(* points at the current position, in the order of the file, and moves     *)
(* past them; seek moves to a point or to the end.  A file may hold fewer  *)
(* points than its header declares: a read may then end at the last point  *)
(* that is there.  An error leaves the position unknown until a seek       *)
(* succeeds.                                                               *)
(***************************************************************************)
EXTENDS Integers, Sequences

CONSTANT MaxU64,  \* largest u64
         Faulty   \* may the stream or the decoder fail?

VARIABLES declared,  \* number_of_points of the header
          present,   \* points that are really in the data
          position,  \* the next point to read
          known,     \* no error since the last successful seek
          ret        \* the answer to the last call

vars == <<declared, present, position, known, ret>>

\* Points are their numbers in the file.
Points(from, count) == [k \in 1 .. count |-> from + k - 1]

Answer(op, n, points) == [op |-> op, n |-> n, ok |-> TRUE, points |-> points]
Failure(op, n) == [op |-> op, n |-> n, ok |-> FALSE, points |-> <<>>]

Lesser(a, b) == IF a < b THEN a ELSE b

Init ==
  /\ declared \in 0 .. MaxU64
  /\ present \in 0 .. MaxU64
  /\ position = 0
  /\ known = TRUE
  /\ ret = Answer("open", 0, <<>>)

\* All that is asked for and declared, or what is there of it.
Read(op, n) ==
  LET wanted == Lesser(n, declared - position)
      there == IF position < present THEN present - position ELSE 0
      count == Lesser(wanted, there)
  IN  /\ known
      /\ ret' = Answer(op, n, Points(position, count))
      /\ position' = position + count
      /\ UNCHANGED <<declared, present, known>>

\* After an error a read may deliver anything, anywhere.
ReadUnknown(op, n) ==
  /\ ~known
  /\ ret'.op = op /\ ret'.n = n /\ ret'.ok
  /\ UNCHANGED <<declared, present, known>>

Seek(p) ==
  /\ position' = Lesser(p, declared)
  /\ known' = TRUE
  /\ ret' = Answer("seek", p, <<>>)
  /\ UNCHANGED <<declared, present>>

\* An error needs a cause: a failing stream, points that are not there, or an
\* earlier error.
Fail(op, n) ==
  /\ Faulty \/ present < declared \/ ~known
  /\ known' = FALSE
  /\ ret' = Failure(op, n)
  /\ UNCHANGED <<declared, present>>

Next ==
  \E n \in 0 .. MaxU64 :
    \/ \E op \in {"read_points", "fill_points"} : Read(op, n) \/ ReadUnknown(op, n) \/ Fail(op, n)
    \/ n = declared /\ (Read("read_all", n) \/ ReadUnknown("read_all", n) \/ Fail("read_all", n))
    \/ Seek(n)
    \/ Fail("seek", n)

Spec == Init /\ [][Next]_vars
=============================================================================
