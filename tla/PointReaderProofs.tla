------------------------- MODULE PointReaderProofs --------------------------
(***************************************************************************)
(* Proofs about PointReader, for every range of u64, batch size, number of *)
(* declared and of present points, with a stream that fails or not.        *)
(***************************************************************************)
EXTENDS PointReader, TLAPS, SequenceTheorems

-----------------------------------------------------------------------------
(* Intervals of points *)

\* Consecutive points, as a sequence.
LEMMA PointsSeq ==
  ASSUME NEW from \in Nat, NEW count \in Nat
  PROVE  /\ Points(from, count) \in Seq(Nat)
         /\ Len(Points(from, count)) = count
         /\ \A k \in 1 .. count : Points(from, count)[k] = from + k - 1
<1>1. \A k \in 1 .. count : from + k - 1 \in Nat
  OBVIOUS
<1>2. Points(from, count) \in [1 .. count -> Nat]
  BY <1>1 DEF Points
<1>3. Points(from, count) \in Seq(Nat)
  BY <1>2
<1>4. DOMAIN Points(from, count) = 1 .. count
  BY DEF Points
<1>5. Len(Points(from, count)) = count
  BY <1>3, <1>4, LenProperties
<1>6. QED
  BY <1>3, <1>5 DEF Points

\* Two adjacent intervals make one.
LEMMA PointsJoin ==
  ASSUME NEW from \in Nat, NEW m \in Nat, NEW n \in Nat
  PROVE  Points(from, m) \o Points(from + m, n) = Points(from, m + n)
<1>. DEFINE p == Points(from, m)
            q == Points(from + m, n)
            r == Points(from, m + n)
<1>1. p \in Seq(Nat) /\ Len(p) = m /\ \A k \in 1 .. m : p[k] = from + k - 1
  BY PointsSeq
<1>2. q \in Seq(Nat) /\ Len(q) = n /\ \A k \in 1 .. n : q[k] = from + m + k - 1
  <2>1. from + m \in Nat
    OBVIOUS
  <2>2. QED
    BY <2>1, PointsSeq
<1>3. r \in Seq(Nat) /\ Len(r) = m + n /\ \A k \in 1 .. m + n : r[k] = from + k - 1
  <2>1. m + n \in Nat
    OBVIOUS
  <2>2. QED
    BY <2>1, PointsSeq
<1>. HIDE DEF p, q, r
<1>4. /\ p \o q \in Seq(Nat) /\ Len(p \o q) = m + n
      /\ \A k \in 1 .. m + n : (p \o q)[k] = IF k <= m THEN p[k] ELSE q[k - m]
  BY <1>1, <1>2, ConcatProperties
<1>5. \A k \in 1 .. m + n : (p \o q)[k] = r[k]
  <2>. SUFFICES ASSUME NEW k \in 1 .. m + n PROVE (p \o q)[k] = r[k]
    OBVIOUS
  <2>1. CASE k <= m
    BY <1>1, <1>3, <1>4, <2>1
  <2>2. CASE k > m
    <3>1. k - m \in 1 .. n /\ from + m + (k - m) - 1 = from + k - 1
      BY <2>2
    <3>2. q[k - m] = from + k - 1
      BY <1>2, <3>1
    <3>3. ~ (k <= m)
      BY <2>2
    <3>4. (p \o q)[k] = q[k - m]
      BY <1>4, <3>3
    <3>5. QED
      BY <1>3, <3>2, <3>4
  <2>3. k <= m \/ k > m
    OBVIOUS
  <2>4. QED
    BY <2>1, <2>2, <2>3
<1>6. p \o q = r
  BY <1>3, <1>4, <1>5, SeqEqual
<1>7. QED
  BY <1>6 DEF p, q, r

\* las-rs subtracts within u64 as long as it has not counted past the end.
LEMMA NoWrap ==
  ASSUME NEW a \in 0 .. MaxU64
  PROVE  a % (MaxU64 + 1) = a
BY PointReaderAssumption

-----------------------------------------------------------------------------
(* The inductive invariant *)

\* Without an error, the stream of las-rs stands at the point it counts.
CursorOK == known => cursor = index

\* Between calls the locals of limits::read_points do not exist.
IdleOK ==
  pc = "idle" => call = NoCall /\ remaining = 0 /\ bytes = <<>>

\* In the loop: the bytes are the points just before the stream's, as many as
\* las-rs has counted and as are no longer to be read.
BatchOK ==
  pc = "batch" =>
    /\ call.op \in {"read_points", "read_all"}
    /\ call.op = "read_all" => call.n = declared
    /\ Len(bytes) <= cursor
    /\ bytes = Points(cursor - Len(bytes), Len(bytes))
    /\ Len(bytes) > 0 => cursor <= present
    /\ index = call.from + Len(bytes)
    /\ call.n = remaining + Len(bytes)
    /\ alloc <= BATCH_POINTS

Inv == TypeOK /\ CursorOK /\ IdleOK /\ BatchOK

-----------------------------------------------------------------------------
(* What a fill of las-rs reads *)

\* A batch has at least one point and its size is a u64.
LEMMA NumberOfBatch == MaxU64 \in Nat /\ BATCH_POINTS \in 1 .. MaxU64
BY PointReaderAssumption

\* The ranges of the state's numbers.
LEMMA Numbers ==
  ASSUME TypeOK
  PROVE  /\ MaxU64 \in Nat /\ BATCH_POINTS \in 1 .. MaxU64
         /\ declared \in 0 .. MaxU64 /\ present \in 0 .. MaxU64
         /\ index \in 0 .. declared /\ cursor \in 0 .. MaxU64
         /\ remaining \in 0 .. MaxU64 /\ alloc \in 0 .. MaxU64
BY NumberOfBatch DEF TypeOK

\* Points inside the file are sequences of its points.
LEMMA PointsTyped ==
  ASSUME NEW from \in Nat, NEW count \in Nat, count > 0 => from + count <= MaxU64
  PROVE  Points(from, count) \in Seq(0 .. MaxU64)
<1>. USE NumberOfBatch
<1>1. \A k \in 1 .. count : from + k - 1 \in 0 .. MaxU64
  <2>. TAKE k \in 1 .. count
  <2>1. count > 0
    OBVIOUS
  <2>2. QED
    BY <2>1
<1>2. Points(from, count) \in [1 .. count -> 0 .. MaxU64]
  BY <1>1 DEF Points
<1>3. QED
  BY <1>2

\* What las-rs wants and takes: no more than is asked for, declared and there.
LEMMA FillBounds ==
  ASSUME TypeOK, NEW n \in 0 .. MaxU64
  PROVE  /\ LasWants(n) = Lesser(n, declared - index)
         /\ LasWants(n) \in 0 .. n
         /\ There \in 0 .. MaxU64
         /\ LasCount(n) \in 0 .. LasWants(n)
         /\ index + LasCount(n) \in 0 .. declared
         /\ cursor + LasCount(n) \in 0 .. MaxU64
         /\ LasCount(n) > 0 => cursor + LasCount(n) <= present
<1>3. /\ declared \in 0 .. MaxU64 /\ present \in 0 .. MaxU64
      /\ index \in 0 .. declared /\ cursor \in 0 .. MaxU64 /\ MaxU64 \in Nat
  BY Numbers
<1>1. declared - index \in 0 .. MaxU64
  BY <1>3
<1>2. LasWants(n) = Lesser(n, declared - index)
  BY <1>1, NoWrap DEF LasWants
<1>4. There \in 0 .. MaxU64 /\ (There > 0 => cursor + There = present)
  BY <1>3 DEF There
<1>5. LasWants(n) \in 0 .. n /\ LasWants(n) <= declared - index
  BY <1>1, <1>2, <1>3 DEF Lesser
<1>6. LasCount(n) \in 0 .. LasWants(n) /\ LasCount(n) <= There
  BY <1>4, <1>5, <1>3 DEF LasCount, Lesser
<1>7. QED
  BY <1>2, <1>3, <1>4, <1>5, <1>6

\* A batch is neither empty nor longer than what remains.
LEMMA NextBatchBounds ==
  ASSUME TypeOK, remaining > 0
  PROVE  /\ NextBatch \in 1 .. BATCH_POINTS
         /\ NextBatch \in 0 .. MaxU64
         /\ NextBatch <= remaining
BY Numbers DEF NextBatch, Lesser

\* A read that stopped short, after b points from the start of the call: no
\* point is left, by the count of las-rs or in the data.
LEMMA FillEmpty ==
  ASSUME TypeOK, NEW n \in 0 .. MaxU64, n > 0, LasCount(n) = 0
  PROVE  index = declared \/ present <= cursor
<1>1. LasWants(n) = 0 \/ There = 0
  BY FillBounds, NumberOfBatch DEF LasCount, Lesser
<1>2. CASE LasWants(n) = 0
  <2>1. LasWants(n) = Lesser(n, declared - index)
    BY FillBounds
  <2>2. QED
    BY <1>2, <2>1, Numbers DEF Lesser
<1>3. CASE There = 0
  BY <1>3, Numbers DEF There
<1>4. QED
  BY <1>1, <1>2, <1>3

\* Las-rs fails for want of points only where the header declares too many.
LEMMA FillShort ==
  ASSUME TypeOK, CursorOK, known, NEW n \in 0 .. MaxU64, LasWants(n) > There
  PROVE  present < declared
<1>1. LasWants(n) <= declared - index /\ LasWants(n) \in Nat
  BY FillBounds, Numbers DEF Lesser
<1>2. cursor = index
  BY DEF CursorOK
<1>3. present - index <= There /\ There \in Nat
  BY <1>2, Numbers DEF There
<1>4. QED
  BY <1>1, <1>3, Numbers

-----------------------------------------------------------------------------
(* The invariant is inductive *)

\* A reader begins at its first point, between calls.
LEMMA InitInv == Init => Inv
<1>. SUFFICES ASSUME Init PROVE Inv
  OBVIOUS
<1>1. <<>> \in Seq(0 .. MaxU64)
  OBVIOUS
<1>2. TypeOK
  BY <1>1, PointReaderAssumption DEF Init, TypeOK, NoCall, Answer
<1>3. QED
  BY <1>2 DEF Init, Inv, CursorOK, IdleOK, BatchOK

\* A call that returns leaves nothing behind but its answer.
LEMMA ReturnInv ==
  ASSUME Inv, NEW answer,
         answer \in [op : {"open", "read_points", "read_all", "fill_points", "seek"},
                     n : 0 .. MaxU64, ok : BOOLEAN, points : Seq(0 .. MaxU64)],
         Return(answer), index' \in 0 .. declared, cursor' \in 0 .. MaxU64,
         known' \in BOOLEAN, known' => cursor' = index', alloc' \in 0 .. MaxU64
  PROVE  Inv'
<1>1. <<>> \in Seq(0 .. MaxU64)
  OBVIOUS
<1>2. declared' = declared /\ present' = present
  BY DEF Return, input
<1>3. NoCall \in [op : {"open", "read_points", "read_all"}, n : 0 .. MaxU64, from : 0 .. declared]
  BY Numbers DEF NoCall, Inv
<1>4. TypeOK'
  BY <1>1, <1>2, <1>3, Numbers DEF Inv, TypeOK, Return
<1>5. QED
  BY <1>4 DEF Inv, CursorOK, IdleOK, BatchOK, Return, NoCall

\* A read begins with no bytes and with the whole count to go.
LEMMA ReadPointsInv ==
  ASSUME Inv, NEW op \in {"read_points", "read_all"}, NEW n \in 0 .. MaxU64,
         op = "read_all" => n = declared, ReadPoints(op, n)
  PROVE  Inv'
<1>1. <<>> \in Seq(0 .. MaxU64) /\ Len(<<>>) = 0
  OBVIOUS
<1>2. declared' = declared /\ present' = present /\ index' = index /\ cursor' = cursor
      /\ known' = known /\ ret' = ret
  BY DEF ReadPoints, input
<1>3. call' \in [op : {"open", "read_points", "read_all"}, n : 0 .. MaxU64, from : 0 .. declared]
  BY Numbers DEF ReadPoints, Inv
<1>4. TypeOK'
  BY <1>1, <1>2, <1>3, Numbers DEF Inv, TypeOK, ReadPoints
<1>5. bytes' = Points(cursor' - Len(bytes'), Len(bytes'))
  <2>1. Points(cursor, 0) = <<>>
    BY DEF Points
  <2>2. QED
    BY <1>1, <1>2, <2>1, Numbers DEF ReadPoints, Inv
<1>6. BatchOK'
  BY <1>1, <1>2, <1>5, Numbers DEF BatchOK, ReadPoints, Inv
<1>7. QED
  BY <1>2, <1>4, <1>6 DEF Inv, CursorOK, IdleOK, ReadPoints

\* A full batch extends the bytes by the points the stream was at.
LEMMA BatchInv == ASSUME Inv, Batch PROVE Inv'
<1>. DEFINE n == LasCount(NextBatch)
            b == Len(bytes)
<1>1. /\ TypeOK /\ pc = "batch" /\ remaining > 0 /\ n > 0
      /\ index' = index + n /\ cursor' = cursor + n /\ alloc' = LasWants(NextBatch)
      /\ known' = known /\ bytes' = bytes \o Points(cursor, n) /\ remaining' = remaining - n
      /\ declared' = declared /\ present' = present /\ pc' = pc /\ call' = call /\ ret' = ret
  BY DEF Inv, Batch, LasFills, input
<1>2. NextBatch \in 1 .. BATCH_POINTS /\ NextBatch \in 0 .. MaxU64 /\ NextBatch <= remaining
  BY <1>1, NextBatchBounds
<1>3. /\ LasWants(NextBatch) \in 0 .. NextBatch /\ n \in 0 .. LasWants(NextBatch)
      /\ index + n \in 0 .. declared /\ cursor + n \in 0 .. MaxU64 /\ cursor + n <= present
  BY <1>1, <1>2, FillBounds
<1>4. bytes \in Seq(0 .. MaxU64) /\ b \in Nat
  BY <1>1 DEF TypeOK
<1>5. /\ call.op \in {"read_points", "read_all"} /\ (call.op = "read_all" => call.n = declared)
      /\ b <= cursor /\ bytes = Points(cursor - b, b)
      /\ index = call.from + b /\ call.n = remaining + b
  BY <1>1 DEF Inv, BatchOK
<1>6. call \in [op : {"open", "read_points", "read_all"}, n : 0 .. MaxU64, from : 0 .. declared]
  BY <1>1 DEF TypeOK
<1>. HIDE DEF n, b
<1>15. /\ n \in Nat /\ b \in Nat /\ cursor \in Nat /\ index \in Nat /\ remaining \in Nat
       /\ present \in Nat /\ MaxU64 \in Nat /\ present <= MaxU64
  BY <1>1, <1>2, <1>3, <1>4, Numbers
<1>16. b <= cursor /\ cursor + n <= MaxU64
  BY <1>3, <1>5, <1>15
<1>17. call.n \in Nat /\ call.from \in Nat
  <2>1. declared \in Nat
    BY <1>1, Numbers
  <2>2. QED
    BY <1>6, <1>15, <2>1
<1>7. bytes' = Points(cursor - b, b + n)
  <2>1. cursor - b \in Nat /\ b \in Nat /\ n \in Nat /\ (cursor - b) + b = cursor
    BY <1>15, <1>16
  <2>2. Points(cursor - b, b) \o Points((cursor - b) + b, n) = Points(cursor - b, b + n)
    BY <2>1, PointsJoin
  <2>3. QED
    BY <1>1, <1>5, <2>1, <2>2
<1>8. Len(bytes') = b + n /\ bytes' \in Seq(0 .. MaxU64)
  <2>1. cursor - b \in Nat /\ b + n \in Nat /\ (cursor - b) + (b + n) <= MaxU64
    BY <1>15, <1>16
  <2>2. QED
    BY <1>7, <2>1, PointsSeq, PointsTyped
<1>9. remaining' \in 0 .. MaxU64 /\ alloc' \in 0 .. MaxU64 /\ alloc' <= BATCH_POINTS
  BY <1>1, <1>2, <1>3, Numbers
<1>10. TypeOK'
  BY <1>1, <1>3, <1>6, <1>8, <1>9 DEF TypeOK
<1>11. CursorOK'
  BY <1>1 DEF Inv, CursorOK
<1>12. BatchOK'
  <2>1. cursor' - Len(bytes') = cursor - b /\ Len(bytes') <= cursor'
    BY <1>1, <1>8, <1>15, <1>16
  <2>2. index + n = call.from + (b + n) /\ call.n = (remaining - n) + (b + n)
    BY <1>5, <1>15, <1>17
  <2>3. index' = call'.from + Len(bytes') /\ call'.n = remaining' + Len(bytes')
    BY <1>1, <1>8, <2>2
  <2>4. QED
    BY <1>1, <1>3, <1>5, <1>7, <1>8, <1>9, <2>1, <2>3 DEF BatchOK
<1>13. QED
  BY <1>1, <1>10, <1>11, <1>12 DEF Inv, IdleOK

\* A failing las-rs leaves its count and its stream in range.
LEMMA LasFailsTyped ==
  ASSUME TypeOK, LasFails
  PROVE  index' \in 0 .. declared /\ cursor' \in 0 .. MaxU64 /\ known' = FALSE
BY Numbers DEF LasFails

\* What a call answers is an answer.
LEMMA AnswerTyped ==
  ASSUME NEW op \in {"open", "read_points", "read_all", "fill_points", "seek"},
         NEW n \in 0 .. MaxU64, NEW points \in Seq(0 .. MaxU64)
  PROVE  /\ Answer(op, n, points) \in
              [op : {"open", "read_points", "read_all", "fill_points", "seek"},
               n : 0 .. MaxU64, ok : BOOLEAN, points : Seq(0 .. MaxU64)]
         /\ Failure(op, n) \in
              [op : {"open", "read_points", "read_all", "fill_points", "seek"},
               n : 0 .. MaxU64, ok : BOOLEAN, points : Seq(0 .. MaxU64)]
<1>1. <<>> \in Seq(0 .. MaxU64)
  OBVIOUS
<1>2. QED
  BY <1>1 DEF Answer, Failure

\* The last batch, a short one or an error ends the call.
LEMMA EndInv == ASSUME Inv, BatchesDone \/ BatchEmpty \/ BatchFails PROVE Inv'
<1>1. TypeOK /\ pc = "batch"
  BY DEF Inv, BatchesDone, BatchEmpty, BatchFails
<1>2. call.op \in {"open", "read_points", "read_all", "fill_points", "seek"} /\ call.n \in 0 .. MaxU64
      /\ bytes \in Seq(0 .. MaxU64)
  BY <1>1 DEF TypeOK
<1>3. CASE BatchesDone
  <2>1. Return(Answer(call.op, call.n, bytes))
    BY <1>3 DEF BatchesDone
  <2>2. index' = index /\ cursor' = cursor /\ known' = known /\ alloc' = alloc
    BY <1>3 DEF BatchesDone, las
  <2>3. known' \in BOOLEAN
    BY <1>1, <2>2 DEF TypeOK
  <2>4. known' => cursor' = index'
    BY <2>2 DEF Inv, CursorOK
  <2>5. QED
    BY <1>1, <1>2, <2>1, <2>2, <2>3, <2>4, AnswerTyped, ReturnInv, Numbers
<1>4. CASE BatchEmpty
  <2>1. Return(Answer(call.op, call.n, bytes)) /\ LasFills(NextBatch) /\ LasCount(NextBatch) = 0
        /\ remaining > 0
    BY <1>4 DEF BatchEmpty
  <2>2. NextBatch \in 0 .. MaxU64
    BY <1>1, <2>1, NextBatchBounds
  <2>3. index' = index /\ cursor' = cursor /\ known' = known /\ alloc' \in 0 .. MaxU64
    <3>1. LasWants(NextBatch) \in 0 .. MaxU64
      BY <1>1, <2>2, FillBounds, Numbers
    <3>2. QED
      BY <1>1, <2>1, <3>1, Numbers DEF LasFills
  <2>4. known' \in BOOLEAN
    BY <1>1, <2>3 DEF TypeOK
  <2>5. known' => cursor' = index'
    BY <2>3 DEF Inv, CursorOK
  <2>6. QED
    BY <1>1, <1>2, <2>1, <2>3, <2>4, <2>5, AnswerTyped, ReturnInv, Numbers
<1>5. CASE BatchFails
  <2>1. Return(Failure(call.op, call.n)) /\ LasFails /\ alloc' = LasWants(NextBatch) /\ remaining > 0
    BY <1>5 DEF BatchFails, LasFillFails
  <2>2. alloc' \in 0 .. MaxU64
    BY <1>1, <2>1, NextBatchBounds, FillBounds, Numbers
  <2>3. index' \in 0 .. declared /\ cursor' \in 0 .. MaxU64 /\ known' = FALSE
    BY <1>1, <2>1, LasFailsTyped
  <2>4. QED
    BY <1>2, <2>1, <2>2, <2>3, AnswerTyped, ReturnInv
<1>6. QED
  BY <1>3, <1>4, <1>5

\* Calls that do not go through the loop leave its locals alone.
LEMMA DirectInv ==
  ASSUME Inv, pc = "idle", UNCHANGED <<input, pc, call, remaining, bytes>>,
         index' \in 0 .. declared, cursor' \in 0 .. MaxU64,
         known' \in BOOLEAN, known' => cursor' = index', alloc' \in 0 .. MaxU64,
         ret' \in [op : {"open", "read_points", "read_all", "fill_points", "seek"},
                   n : 0 .. MaxU64, ok : BOOLEAN, points : Seq(0 .. MaxU64)]
  PROVE  Inv'
<1>1. declared' = declared /\ present' = present
  BY DEF input
<1>2. TypeOK'
  BY <1>1 DEF Inv, TypeOK
<1>3. QED
  BY <1>2 DEF Inv, CursorOK, IdleOK, BatchOK

\* fill_points is one call of las-rs.
LEMMA FillPointsInv == ASSUME Inv, NEW n \in 0 .. MaxU64, FillPoints(n) PROVE Inv'
<1>1. TypeOK /\ pc = "idle" /\ UNCHANGED <<input, pc, call, remaining, bytes>>
  BY DEF Inv, FillPoints
<1>2. /\ LasWants(n) \in 0 .. MaxU64 /\ LasCount(n) \in Nat
      /\ index + LasCount(n) \in 0 .. declared /\ cursor + LasCount(n) \in 0 .. MaxU64
  BY <1>1, FillBounds, Numbers
<1>3. CASE LasFills(n) /\ ret' = Answer("fill_points", n, Points(cursor, LasCount(n)))
  <2>1. Points(cursor, LasCount(n)) \in Seq(0 .. MaxU64)
    BY <1>1, <1>2, PointsTyped, Numbers
  <2>2. ret' \in [op : {"open", "read_points", "read_all", "fill_points", "seek"},
                  n : 0 .. MaxU64, ok : BOOLEAN, points : Seq(0 .. MaxU64)]
    BY <1>3, <2>1, AnswerTyped
  <2>3. known' \in BOOLEAN
    BY <1>1, <1>3 DEF TypeOK, LasFills
  <2>4. known' => cursor' = index'
    BY <1>3 DEF Inv, CursorOK, LasFills
  <2>5. index' \in 0 .. declared /\ cursor' \in 0 .. MaxU64 /\ alloc' \in 0 .. MaxU64
    BY <1>2, <1>3 DEF LasFills
  <2>6. QED
    BY <1>1, <2>2, <2>3, <2>4, <2>5, DirectInv
<1>4. CASE LasFillFails(n) /\ ret' = Failure("fill_points", n)
  <2>1. <<>> \in Seq(0 .. MaxU64)
    OBVIOUS
  <2>2. ret' \in [op : {"open", "read_points", "read_all", "fill_points", "seek"},
                  n : 0 .. MaxU64, ok : BOOLEAN, points : Seq(0 .. MaxU64)]
    BY <1>4, <2>1, AnswerTyped
  <2>3. index' \in 0 .. declared /\ cursor' \in 0 .. MaxU64 /\ known' = FALSE
        /\ alloc' \in 0 .. MaxU64
    BY <1>1, <1>2, <1>4, LasFailsTyped DEF LasFillFails
  <2>4. QED
    BY <1>1, <2>2, <2>3, DirectInv
<1>5. QED
  BY <1>3, <1>4 DEF FillPoints

\* A seek moves the count and the stream together, or fails.
LEMMA SeekInv == ASSUME Inv, NEW p \in 0 .. MaxU64, Seek(p) PROVE Inv'
<1>1. TypeOK /\ pc = "idle" /\ UNCHANGED <<input, pc, call, remaining, bytes>> /\ alloc' = alloc
  BY DEF Inv, Seek
<1>2. SeekPosition(p) \in 0 .. declared /\ SeekPosition(p) \in 0 .. MaxU64 /\ alloc \in 0 .. MaxU64
  BY <1>1, Numbers DEF SeekPosition, Lesser
<1>3. <<>> \in Seq(0 .. MaxU64)
  OBVIOUS
<1>4. ret' \in [op : {"open", "read_points", "read_all", "fill_points", "seek"},
                n : 0 .. MaxU64, ok : BOOLEAN, points : Seq(0 .. MaxU64)]
  <2>1. ret' = Answer("seek", p, <<>>) \/ ret' = Failure("seek", p)
    BY DEF Seek
  <2>2. CASE ret' = Answer("seek", p, <<>>)
    BY <1>3, <2>2, AnswerTyped
  <2>3. CASE ret' = Failure("seek", p)
    BY <1>3, <2>3, AnswerTyped
  <2>4. QED
    BY <2>1, <2>2, <2>3
<1>5. CASE index' = SeekPosition(p) /\ cursor' = SeekPosition(p) /\ known' = TRUE
  BY <1>1, <1>2, <1>4, <1>5, DirectInv
<1>6. CASE LasFails
  BY <1>1, <1>2, <1>4, <1>6, LasFailsTyped, DirectInv
<1>7. QED
  BY <1>5, <1>6 DEF Seek

\* Every call, and every turn of the loop, keeps the invariant.
LEMMA NextInv == Inv /\ [Next]_vars => Inv'
<1>. SUFFICES ASSUME Inv, [Next]_vars PROVE Inv'
  OBVIOUS
<1>1. CASE \E n \in 0 .. MaxU64 : ReadPoints("read_points", n) \/ FillPoints(n) \/ Seek(n)
  BY <1>1, ReadPointsInv, FillPointsInv, SeekInv
<1>2. CASE ReadPoints("read_all", declared)
  BY <1>2, ReadPointsInv, Numbers DEF Inv
<1>3. CASE Batch
  BY <1>3, BatchInv
<1>4. CASE BatchesDone \/ BatchEmpty \/ BatchFails
  BY <1>4, EndInv
<1>5. CASE UNCHANGED vars
  BY <1>5 DEF vars, Inv, TypeOK, CursorOK, IdleOK, BatchOK
<1>6. QED
  BY <1>1, <1>2, <1>3, <1>4, <1>5 DEF Next

-----------------------------------------------------------------------------
(* Theorems *)

\* In every reachable state las-rs has counted no point past the last (so its
\* unchecked subtraction does not wrap), and inside read_points and read_all
\* the bytes gathered are the points just before the stream's, in step with
\* the count of las-rs and with the points still to read.
THEOREM Invariance == Spec => []Inv
<1>1. Init => Inv
  BY InitInv
<1>2. Inv /\ [Next]_vars => Inv'
  BY NextInv
<1>3. QED
  BY <1>1, <1>2, PTL DEF Spec

\* What is gathered was there: it lies before the stream's position.
LEMMA BatchesBounded == Inv => BatchesFollowData
<1>. SUFFICES ASSUME Inv, pc = "batch" PROVE Len(bytes) <= present /\ alloc <= BATCH_POINTS
  BY DEF BatchesFollowData
<1>1. TypeOK /\ BatchOK
  BY DEF Inv
<1>2. Len(bytes) \in Nat
  BY <1>1 DEF TypeOK
<1>3. QED
  BY <1>1, <1>2, Numbers DEF BatchOK

\* read_points and read_all hold no more than the points that are there and
\* one batch, whatever number of points the header declares.
THEOREM BatchesHoldWhatIsThere == Spec => []BatchesFollowData
<1>1. QED
  BY Invariance, BatchesBounded, PTL

-----------------------------------------------------------------------------
(* Refinement: PointReader implements PointSource *)

Position == IF pc = "batch" THEN call.from ELSE index

\* The loop ends where one read of the whole call would have ended: with all
\* that was asked for, or at the last point that is declared or there.
LEMMA ReadEnds ==
  ASSUME Inv, pc = "batch", known, index <= declared,
         remaining = 0 \/ index = declared \/ present <= cursor,
         Return(Answer(call.op, call.n, bytes)), index' = index, known' = known
  PROVE  Source!Read(call.op, call.n)
<1>. DEFINE b == Len(bytes)
<1>1. TypeOK /\ BatchOK /\ cursor = index
  BY DEF Inv, CursorOK
<1>2. bytes \in Seq(0 .. MaxU64) /\ b \in Nat
  BY <1>1 DEF TypeOK
<1>3. call.n \in Nat /\ call.from \in Nat /\ remaining \in Nat /\ declared \in Nat
      /\ present \in Nat /\ index \in Nat
  BY <1>1, Numbers DEF TypeOK
<1>4. /\ b <= cursor /\ bytes = Points(cursor - b, b) /\ (b > 0 => cursor <= present)
      /\ index = call.from + b /\ call.n = remaining + b
  BY <1>1 DEF BatchOK
<1>. HIDE DEF b
<1>5. cursor - b = call.from /\ b <= call.n
  BY <1>1, <1>2, <1>3, <1>4
<1>6. Lesser(Lesser(call.n, declared - call.from),
             IF call.from < present THEN present - call.from ELSE 0) = b
  <2>1. b = call.n \/ call.from + b = declared \/ present <= call.from + b
    <3>1. CASE remaining = 0
      BY <1>2, <1>4, <3>1
    <3>2. CASE index = declared \/ present <= cursor
      BY <1>1, <1>4, <3>2
    <3>3. QED
      BY <3>1, <3>2
  <2>2. call.from + b <= declared /\ (b > 0 => call.from + b <= present)
    BY <1>1, <1>4
  <2>3. QED
    BY <1>2, <1>3, <1>5, <2>1, <2>2 DEF Lesser
<1>7. Position = call.from /\ Position' = call.from + b
  BY <1>4 DEF Position, Return
<1>8. ret' = Answer(call.op, call.n, Points(call.from, b))
  BY <1>4, <1>5 DEF Return
<1>9. declared' = declared /\ present' = present
  BY DEF Return, input
<1>10. QED
  BY <1>6, <1>7, <1>8, <1>9
     DEF Source!Read, Source!Lesser, Lesser, Source!Answer, Answer, Source!Points, Points, Position

\* Once an error has taken count and stream apart, any answer may come.
LEMMA UnknownReadEnds ==
  ASSUME NEW op, NEW n, NEW points, ~known, known' = known,
         ret' = Answer(op, n, points), declared' = declared, present' = present
  PROVE  Source!ReadUnknown(op, n)
<1>1. ret'.op = op /\ ret'.n = n /\ ret'.ok
  BY DEF Answer
<1>2. QED
  BY <1>1 DEF Source!ReadUnknown

\* A failing read of las-rs is a failing read of the source.
LEMMA FailMatches ==
  ASSUME NEW op, NEW n, NEW m \in 0 .. MaxU64, Inv, LasFillFails(m),
         ret' = Failure(op, n), declared' = declared, present' = present
  PROVE  Source!Fail(op, n)
<1>1. TypeOK /\ CursorOK
  BY DEF Inv
<1>2. Faulty \/ present < declared \/ ~known
  BY <1>1, FillShort DEF LasFillFails
<1>3. known' = FALSE
  BY DEF LasFillFails, LasFails
<1>4. QED
  BY <1>2, <1>3 DEF Source!Fail, Source!Failure, Failure

\* The steps of PointSource, one reader call at a time.
LEMMA SourceReads ==
  ASSUME NEW op \in {"read_points", "fill_points", "read_all"}, NEW n \in 0 .. MaxU64,
         op = "read_all" => n = declared,
         Source!Read(op, n) \/ Source!ReadUnknown(op, n) \/ Source!Fail(op, n)
  PROVE  Source!Next
<1>1. CASE op = "read_all"
  BY <1>1 DEF Source!Next
<1>2. CASE op \in {"read_points", "fill_points"}
  BY <1>2 DEF Source!Next
<1>3. QED
  BY <1>1, <1>2

\* The last turn of the loop is the source's one read.
LEMMA EndMatches ==
  ASSUME Inv, BatchesDone \/ BatchEmpty \/ BatchFails
  PROVE  Source!Next
<1>1. TypeOK /\ BatchOK /\ pc = "batch"
  BY DEF Inv, BatchesDone, BatchEmpty, BatchFails
<1>2. /\ call.op \in {"read_points", "fill_points", "read_all"} /\ call.n \in 0 .. MaxU64
      /\ call.op = "read_all" => call.n = declared
  BY <1>1 DEF TypeOK, BatchOK
<1>3. known \in BOOLEAN
  BY <1>1 DEF TypeOK
<1>4. declared' = declared /\ present' = present
  BY DEF BatchesDone, BatchEmpty, BatchFails, Return, input
<1>5. CASE BatchesDone \/ BatchEmpty
  <2>1. Return(Answer(call.op, call.n, bytes))
    BY <1>5 DEF BatchesDone, BatchEmpty
  <2>2. /\ index' = index /\ known' = known
        /\ remaining = 0 \/ index = declared \/ present <= cursor
    <3>1. CASE BatchesDone
      BY <3>1 DEF BatchesDone, las
    <3>2. CASE BatchEmpty
      <4>1. remaining > 0 /\ LasCount(NextBatch) = 0 /\ LasFills(NextBatch)
        BY <3>2 DEF BatchEmpty
      <4>2. NextBatch \in 0 .. MaxU64 /\ NextBatch > 0
        BY <1>1, <4>1, NextBatchBounds, NumberOfBatch
      <4>3. index = declared \/ present <= cursor
        BY <1>1, <4>1, <4>2, FillEmpty
      <4>4. index' = index /\ known' = known
        BY <1>1, <4>1, Numbers DEF LasFills
      <4>5. QED
        BY <4>3, <4>4
    <3>3. QED
      BY <1>5, <3>1, <3>2
  <2>3. index <= declared
    BY <1>1, Numbers
  <2>4. CASE known
    <3>1. Source!Read(call.op, call.n)
      BY <1>1, <2>1, <2>2, <2>3, <2>4, ReadEnds
    <3>2. QED
      BY <1>2, <3>1, SourceReads
  <2>5. CASE ~known
    <3>1. ret' = Answer(call.op, call.n, bytes)
      BY <2>1 DEF Return
    <3>2. Source!ReadUnknown(call.op, call.n)
      BY <1>4, <2>2, <2>5, <3>1, UnknownReadEnds
    <3>3. QED
      BY <1>2, <3>2, SourceReads
  <2>6. QED
    BY <1>3, <2>4, <2>5
<1>6. CASE BatchFails
  <2>1. LasFillFails(NextBatch) /\ ret' = Failure(call.op, call.n) /\ remaining > 0
    BY <1>6 DEF BatchFails, Return
  <2>2. NextBatch \in 0 .. MaxU64
    BY <1>1, <2>1, NextBatchBounds
  <2>3. Source!Fail(call.op, call.n)
    BY <1>4, <2>1, <2>2, FailMatches
  <2>4. QED
    BY <1>2, <2>3, SourceReads
<1>7. QED
  BY <1>5, <1>6

\* fill_points is a read of the source.
LEMMA FillMatches ==
  ASSUME Inv, NEW n \in 0 .. MaxU64, FillPoints(n)
  PROVE  Source!Next
<1>1. TypeOK /\ pc = "idle" /\ pc' = "idle" /\ declared' = declared /\ present' = present
  BY DEF Inv, FillPoints, input
<1>2. known \in BOOLEAN
  BY <1>1 DEF TypeOK
<1>3. "fill_points" \in {"read_points", "fill_points", "read_all"}
  OBVIOUS
<1>4. CASE LasFills(n) /\ ret' = Answer("fill_points", n, Points(cursor, LasCount(n)))
  <2>1. index' = index + LasCount(n) /\ known' = known
    BY <1>4 DEF LasFills
  <2>2. CASE known
    <3>1. cursor = index
      BY <2>2 DEF Inv, CursorOK
    <3>2. LasCount(n) = Lesser(Lesser(n, declared - index),
                               IF index < present THEN present - index ELSE 0)
      BY <1>1, <3>1, FillBounds DEF LasCount, There
    <3>3. Position = index /\ Position' = index + LasCount(n)
      BY <1>1, <2>1 DEF Position
    <3>4. Source!Read("fill_points", n)
      BY <1>1, <1>4, <2>1, <2>2, <3>1, <3>2, <3>3
         DEF Source!Read, Source!Lesser, Lesser, Source!Answer, Answer, Source!Points, Points,
             Position
    <3>5. QED
      BY <1>3, <3>4, SourceReads
  <2>3. CASE ~known
    BY <1>1, <1>3, <1>4, <2>1, <2>3, UnknownReadEnds, SourceReads
  <2>4. QED
    BY <1>2, <2>2, <2>3
<1>5. CASE LasFillFails(n) /\ ret' = Failure("fill_points", n)
  <2>1. Source!Fail("fill_points", n)
    BY <1>1, <1>5, FailMatches
  <2>2. QED
    BY <1>3, <2>1, SourceReads
<1>6. QED
  BY <1>4, <1>5 DEF FillPoints

\* seek is a seek of the source.
LEMMA SeekMatches ==
  ASSUME NEW p \in 0 .. MaxU64, Seek(p)
  PROVE  Source!Next
<1>1. pc = "idle" /\ pc' = "idle" /\ declared' = declared /\ present' = present
  BY DEF Seek, input
<1>2. Source!Seek(p) \/ Source!Fail("seek", p)
  BY <1>1 DEF Seek, LasFails, SeekPosition, Source!Seek, Source!Fail, Source!Lesser, Lesser,
              Source!Answer, Answer, Source!Failure, Failure
<1>3. QED
  BY <1>2 DEF Source!Next

\* The turns before the last show the source nothing.
LEMMA BatchStutters ==
  ASSUME Inv, Batch \/ (\E op \in {"read_points", "read_all"}, n \in 0 .. MaxU64 : ReadPoints(op, n))
  PROVE  UNCHANGED Source!vars
<1>1. CASE Batch
  BY <1>1 DEF Batch, LasFills, input, Source!vars
<1>2. CASE \E op \in {"read_points", "read_all"}, n \in 0 .. MaxU64 : ReadPoints(op, n)
  BY <1>2 DEF ReadPoints, input, Source!vars
<1>3. QED
  BY <1>1, <1>2

\* The reader implements PointSource: a read that las-rs serves in batches, and
\* that may end short or with an error, is one read of the points from the
\* position at its start, in order, without a gap.
THEOREM SourceRefinement == Spec => ImplementsSource
<1>1. Init => Source!Init
  BY DEF Init, Source!Init, Source!Answer, Answer, NoCall
<1>2. Inv /\ [Next]_vars => [Source!Next]_Source!vars
  <2>. SUFFICES ASSUME Inv, [Next]_vars PROVE [Source!Next]_Source!vars
    OBVIOUS
  <2>1. CASE \E n \in 0 .. MaxU64 : FillPoints(n) \/ Seek(n)
    BY <2>1, FillMatches, SeekMatches
  <2>2. CASE Batch \/ \E n \in 0 .. MaxU64 : ReadPoints("read_points", n)
    BY <2>2, BatchStutters
  <2>3. CASE ReadPoints("read_all", declared)
    <3>1. declared \in 0 .. MaxU64
      BY DEF Inv, TypeOK
    <3>2. QED
      BY <2>3, <3>1, BatchStutters
  <2>4. CASE BatchesDone \/ BatchEmpty \/ BatchFails
    BY <2>4, EndMatches
  <2>5. CASE UNCHANGED vars
    BY <2>5 DEF vars, Source!vars
  <2>6. QED
    BY <2>1, <2>2, <2>3, <2>4, <2>5 DEF Next
<1>3. QED
  BY <1>1, <1>2, Invariance, PTL DEF Spec, ImplementsSource, Source!Spec

\* A turn of the loop that is not the last leaves less to read.
LEMMA TurnShrinks ==
  ASSUME Inv, pc = "batch", Next
  PROVE  \/ pc' = "idle"
         \/ remaining' \in 0 .. remaining - 1 /\ Len(bytes') > Len(bytes)
<1>1. CASE Batch
  <2>1. /\ LasCount(NextBatch) > 0 /\ remaining > 0 /\ TypeOK
        /\ remaining' = remaining - LasCount(NextBatch)
        /\ bytes' = bytes \o Points(cursor, LasCount(NextBatch))
    BY <1>1 DEF Batch, Inv
  <2>2. NextBatch \in 0 .. MaxU64 /\ NextBatch <= remaining
    BY <2>1, NextBatchBounds
  <2>3. /\ LasWants(NextBatch) \in 0 .. NextBatch /\ LasCount(NextBatch) \in 0 .. LasWants(NextBatch)
        /\ remaining \in Nat /\ cursor \in Nat
        /\ cursor + LasCount(NextBatch) \in 0 .. MaxU64
    BY <2>1, <2>2, FillBounds, Numbers
  <2>4. PICK n \in Nat : n = LasCount(NextBatch) /\ n > 0 /\ n <= remaining
    BY <2>1, <2>2, <2>3
  <2>5. remaining' \in 0 .. remaining - 1
    BY <2>1, <2>3, <2>4
  <2>6. Points(cursor, n) \in Seq(Nat) /\ Len(Points(cursor, n)) = n
    BY <2>3, <2>4, PointsSeq
  <2>7. bytes \in Seq(Nat)
    BY <2>1, Numbers DEF TypeOK
  <2>8. Len(bytes') = Len(bytes) + n
    <3>1. PICK x \in Seq(Nat), y \in Seq(Nat) : x = bytes /\ y = Points(cursor, n)
      BY <2>6, <2>7
    <3>2. Len(x \o y) = Len(x) + Len(y)
      BY ConcatProperties
    <3>3. QED
      BY <2>1, <2>4, <2>6, <3>1, <3>2
  <2>9. QED
    BY <2>4, <2>5, <2>7, <2>8
<1>2. CASE BatchesDone \/ BatchEmpty \/ BatchFails
  BY <1>2 DEF BatchesDone, BatchEmpty, BatchFails, Return
<1>3. QED
  BY <1>1, <1>2 DEF Next, ReadPoints, FillPoints, Seek

\* Every turn of read_points and read_all returns or has less to read than the one
\* before it and more points than it, so there are no more turns than points in the
\* data and one: what ReadsEnd adds is that a step is taken.
THEOREM ReadsMakeProgress ==
  Spec => [][pc = "batch" => \/ pc' = "idle"
                             \/ remaining' \in 0 .. remaining - 1 /\ Len(bytes') > Len(bytes)]_vars
<1>1. Inv /\ [Next]_vars =>
        [pc = "batch" => \/ pc' = "idle"
                         \/ remaining' \in 0 .. remaining - 1 /\ Len(bytes') > Len(bytes)]_vars
  BY TurnShrinks
<1>2. QED
  BY <1>1, Invariance, PTL DEF Spec
=============================================================================
