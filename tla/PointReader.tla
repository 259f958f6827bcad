----------------------------- MODULE PointReader ----------------------------
(***************************************************************************)
(* The point operations of a reader: rust/src/reader.rs with read_points   *)
(* of rust/src/limits.rs, behind las::Reader of include/lasrs/reader.hpp.  *)
(* read_points and read_all go to las-rs in batches of BATCH_POINTS, so    *)
(* that memory follows the points that are there and not the number the    *)
(* header declares; fill_points goes straight to las-rs; seek is cut off   *)
(* at the number of points.                                                *)
(*                                                                         *)
(* las-rs is external.  Its fill_points takes the lesser of n and the      *)
(* points left by its own count (a u64 subtraction that wraps), allocates  *)
(* them, and decodes from where its stream stands.  When points are        *)
(* missing from the data it fails or stops at the last one.  An error      *)
(* leaves its count and its stream at places of their own.                 *)
(***************************************************************************)
EXTENDS Integers, Sequences

CONSTANTS MaxU64, BATCH_POINTS, Faulty

ASSUME PointReaderAssumption ==
  /\ MaxU64 \in Nat
  /\ BATCH_POINTS \in 1 .. MaxU64
  /\ Faulty \in BOOLEAN

VARIABLES
  declared,   \* number_of_points of the header
  present,    \* points that are really in the data
  index,      \* las-rs: points it has counted as read
  cursor,     \* las-rs: the point its stream stands at
  known,      \* history: no error since the last successful seek
  pc,         \* "idle", or "batch" inside read_points and read_all
  call,       \* the call being served: op, n, and index at its start
  remaining,  \* limits::read_points: points still to read
  bytes,      \* limits::read_points: the points gathered so far
  alloc,      \* las-rs: points allocated for the last fill
  ret         \* the answer to the last call

vars == <<declared, present, index, cursor, known, pc, call, remaining, bytes, alloc, ret>>
las == <<index, cursor, known, alloc>>
input == <<declared, present>>

Points(from, count) == [k \in 1 .. count |-> from + k - 1]
Answer(op, n, points) == [op |-> op, n |-> n, ok |-> TRUE, points |-> points]
Failure(op, n) == [op |-> op, n |-> n, ok |-> FALSE, points |-> <<>>]
Lesser(a, b) == IF a < b THEN a ELSE b
NoCall == [op |-> "open", n |-> 0, from |-> 0]

Init ==
  /\ declared \in 0 .. MaxU64
  /\ present \in 0 .. MaxU64
  /\ index = 0
  /\ cursor = 0
  /\ known = TRUE
  /\ pc = "idle"
  /\ call = NoCall
  /\ remaining = 0
  /\ bytes = <<>>
  /\ alloc = 0
  /\ ret = Answer("open", 0, <<>>)

-----------------------------------------------------------------------------
(* las-rs (external) *)

\* Points las-rs is about to read: n, or those left by its count.
LasWants(n) == Lesser(n, (declared - index) % (MaxU64 + 1))

\* Reads all it wants, or those that are in the data.
There == IF cursor < present THEN present - cursor ELSE 0
LasCount(n) == Lesser(LasWants(n), There)

LasFills(n) ==
  /\ index' = index + LasCount(n)
  /\ cursor' = cursor + LasCount(n)
  /\ alloc' = LasWants(n)
  /\ UNCHANGED known

LasFails ==
  /\ known' = FALSE
  /\ index' \in index .. declared
  /\ cursor' \in 0 .. present

LasFillFails(n) ==
  /\ Faulty \/ LasWants(n) > There
  /\ alloc' = LasWants(n)
  /\ LasFails

-----------------------------------------------------------------------------
(* read_points, read_all *)

ReadPoints(op, n) ==
  /\ pc = "idle"
  /\ pc' = "batch"
  /\ call' = [op |-> op, n |-> n, from |-> index]
  /\ remaining' = n
  /\ bytes' = <<>>
  /\ alloc' = 0
  /\ UNCHANGED <<input, index, cursor, known, ret>>

\* One turn of the loop that goes on.
NextBatch_AllAtOnce == remaining
NextBatch == Lesser(remaining, BATCH_POINTS)

Batch_Overwrites ==
  /\ pc = "batch"
  /\ remaining > 0
  /\ LasCount(NextBatch) > 0
  /\ LasFills(NextBatch)
  /\ bytes' = Points(cursor, LasCount(NextBatch))
  /\ remaining' = remaining - LasCount(NextBatch)
  /\ UNCHANGED <<input, pc, call, ret>>

Batch ==
  /\ pc = "batch"
  /\ remaining > 0
  /\ LasCount(NextBatch) > 0
  /\ LasFills(NextBatch)
  /\ bytes' = bytes \o Points(cursor, LasCount(NextBatch))
  /\ remaining' = remaining - LasCount(NextBatch)
  /\ UNCHANGED <<input, pc, call, ret>>

\* The locals of the call are gone once it returns.
Return(answer) ==
  /\ pc' = "idle"
  /\ call' = NoCall
  /\ remaining' = 0
  /\ bytes' = <<>>
  /\ ret' = answer
  /\ UNCHANGED input

\* The loop ends: all was read, or las-rs had no more.
BatchesDone ==
  /\ pc = "batch"
  /\ remaining = 0
  /\ Return(Answer(call.op, call.n, bytes))
  /\ UNCHANGED las

BatchEmpty_GoesOn ==
  /\ pc = "batch"
  /\ remaining > 0
  /\ LasCount(NextBatch) = 0
  /\ LasFills(NextBatch)
  /\ UNCHANGED <<input, pc, call, remaining, bytes, ret>>

BatchEmpty ==
  /\ pc = "batch"
  /\ remaining > 0
  /\ LasCount(NextBatch) = 0
  /\ LasFills(NextBatch)
  /\ Return(Answer(call.op, call.n, bytes))

\* The ? of the loop: the points gathered so far are dropped.
BatchFails ==
  /\ pc = "batch"
  /\ remaining > 0
  /\ LasFillFails(NextBatch)
  /\ Return(Failure(call.op, call.n))

-----------------------------------------------------------------------------
(* fill_points, seek *)

FillPoints(n) ==
  /\ pc = "idle"
  /\ \/ /\ LasFills(n)
        /\ ret' = Answer("fill_points", n, Points(cursor, LasCount(n)))
     \/ /\ LasFillFails(n)
        /\ ret' = Failure("fill_points", n)
  /\ UNCHANGED <<input, pc, call, remaining, bytes>>

\* The position lasrs_reader_seek passes on: las-rs must not count past the end.
SeekPosition(p) == Lesser(p, declared)

Seek(p) ==
  /\ pc = "idle"
  /\ \/ /\ index' = SeekPosition(p)
        /\ cursor' = SeekPosition(p)
        /\ known' = TRUE
        /\ ret' = Answer("seek", p, <<>>)
     \/ /\ Faulty
        /\ LasFails
        /\ ret' = Failure("seek", p)
  /\ UNCHANGED <<input, pc, call, remaining, bytes, alloc>>

-----------------------------------------------------------------------------
Next ==
  \/ \E n \in 0 .. MaxU64 : ReadPoints("read_points", n) \/ FillPoints(n) \/ Seek(n)
  \/ ReadPoints("read_all", declared)
  \/ Batch \/ BatchesDone \/ BatchEmpty \/ BatchFails

Spec == Init /\ [][Next]_vars

\* The loop of limits::read_points runs in the calling thread until it ends.
FairSpec == Spec /\ WF_vars(Batch \/ BatchesDone \/ BatchEmpty)

-----------------------------------------------------------------------------
(* Properties *)

\* The type of the state, and that las-rs never counts past the last point,
\* which is what its unchecked subtraction relies on (lasrs_reader_seek).
TypeOK ==
  /\ declared \in 0 .. MaxU64
  /\ present \in 0 .. MaxU64
  /\ index \in 0 .. declared
  /\ cursor \in 0 .. MaxU64
  /\ known \in BOOLEAN
  /\ pc \in {"idle", "batch"}
  /\ call \in [op : {"open", "read_points", "read_all"}, n : 0 .. MaxU64, from : 0 .. declared]
  /\ remaining \in 0 .. MaxU64
  /\ bytes \in Seq(0 .. MaxU64)
  /\ alloc \in 0 .. MaxU64
  /\ ret \in [op : {"open", "read_points", "read_all", "fill_points", "seek"}, n : 0 .. MaxU64,
              ok : BOOLEAN, points : Seq(0 .. MaxU64)]

\* "Point reads go in batches so memory follows the data actually present"
\* (limits.rs), of read_points and read_all: they hold at most the points
\* that are there and one batch, whatever the header declares.
BatchesFollowData ==
  pc = "batch" => Len(bytes) <= present /\ alloc <= BATCH_POINTS

\* The same of every point read, as limits.rs says it of point reads at large.
PointReadsFollowData == alloc <= present + BATCH_POINTS

Source == INSTANCE PointSource
            WITH position <- IF pc = "batch" THEN call.from ELSE index

\* The reader implements PointSource: in spite of batches, short reads and
\* errors half way, a successful call delivers the points from the position at
\* its start, in order, without a gap, and all that were asked for and are
\* there; and the position moves by as many.
ImplementsSource == Source!Spec

\* read_points and read_all return, also on a file that declares points it
\* does not have.
ReadsEnd == pc = "batch" ~> pc = "idle"
=============================================================================
