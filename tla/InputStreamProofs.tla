------------------------- MODULE InputStreamProofs --------------------------
(***************************************************************************)
(* Proofs about InputStream and BufferedInput, for every start position,   *)
(* length, offset range, read size and capacity, with a stream buffer that *)
(* fails or not.                                                           *)
(***************************************************************************)
EXTENDS BufferedInput, TLAPS

\* seek_target answers exactly when the ideal sum is a position, and then with
\* that sum: its two comparisons neither overflow nor refuse a legal target.
LEMMA SeekTargetExact ==
  ASSUME NEW offset \in Int, offset <= MaxOffset,
         NEW origin \in Origins,
         NEW current \in 0 .. MaxOffset,
         NEW end \in 0 .. MaxOffset
  PROVE  /\ SeekBase(origin, current, end) \in 0 .. MaxOffset
         /\ LET sum == SeekBase(origin, current, end) + offset
            IN  SeekTarget(offset, origin, current, end)
                  = IF sum \in 0 .. MaxOffset THEN sum ELSE None
<1>1. SeekBase(origin, current, end) \in 0 .. MaxOffset
  BY StreamAssumption DEF SeekBase, Origins
<1>2. QED
  BY <1>1, StreamAssumption DEF SeekTarget

\* The calls Next makes are calls of the interface.
LEMMA CallsTyped ==
  /\ \A len \in 0 .. MaxRead : ReadCall(len) \in Calls
  /\ \A origin \in Origins : \A offset \in Offsets(origin) :
       /\ SeekCall(offset, origin) \in Calls
       /\ offset \in Int
<1>1. \A origin \in Origins : \A offset \in Offsets(origin) : offset \in Int
  BY StreamAssumption DEF Offsets
<1>2. QED
  BY <1>1 DEF Calls

\* The inductive invariant: TypeOK alone is not inductive, because a read past
\* the end leaves the buffer where PastEndConsistent says it waits.
Inv == TypeOK /\ PastEndConsistent

\* Whatever read() or seek() answers is an answer of the interface.
LEMMA AnswersTyped ==
  ASSUME NEW call \in Calls
  PROVE  /\ \A pos \in 0 .. MaxOffset, count \in 0 .. MaxRead :
              Answer(call, pos, count) \in Answers
         /\ Failure(call) \in Answers
<1>1. 0 \in 0 .. MaxOffset /\ 0 \in 0 .. MaxRead
  BY StreamAssumption
<1>2. QED
  BY <1>1 DEF Answer, Failure, Answers

\* The position Rust sees is always one a seek can be relative to.
LEMMA PositionTyped == TypeOK => Position \in 0 .. MaxOffset
BY StreamAssumption, StartAssumption DEF TypeOK, Position, StreamEnd

\* The same of the state after a step that keeps the type.
LEMMA PositionStaysTyped ==
  ASSUME TypeOK'
  PROVE  Position' \in 0 .. MaxOffset
<1>1. getPos' \in Start .. Start + Length
  BY DEF TypeOK, StreamEnd
<1>2. getPos' - Start \in 0 .. MaxOffset
  <2>1. \A g \in Start .. Start + Length : g - Start \in 0 .. MaxOffset
    BY StreamAssumption, StartAssumption
  <2>2. QED
    BY <1>1, <2>1
<1>3. past_end' \in {None} \cup (0 .. MaxOffset)
  BY DEF TypeOK, None
<1>4. QED
  BY <1>2, <1>3 DEF Position, None

\* A freshly constructed adapter, at start_ with past_end_ unset, satisfies Inv.
LEMMA InitInv == Init => Inv
<1>. SUFFICES ASSUME Init PROVE Inv
  OBVIOUS
<1>1. NoCall \in Calls
  BY CallsTyped, StreamAssumption DEF NoCall
<1>2. ret \in Answers
  BY <1>1, AnswersTyped, StreamAssumption DEF Init
<1>3. QED
  BY <1>2, StreamAssumption, StartAssumption
     DEF Init, Inv, TypeOK, PastEndConsistent, None, StreamEnd

\* read() keeps Inv: past the end, from the buffer, and when sgetn throws.
LEMMA ReadInv ==
  ASSUME Inv, NEW len \in 0 .. MaxRead, Read(len)
  PROVE  Inv'
<1>. USE StreamAssumption, StartAssumption DEF Inv, TypeOK, PastEndConsistent, StreamEnd, None
<1>1. ReadCall(len) \in Calls
  BY CallsTyped
<1>2. CASE ReadPastEnd(len)
  <2>1. ret' \in Answers
    BY <1>1, <1>2, AnswersTyped DEF ReadPastEnd
  <2>2. QED
    BY <2>1, <1>2 DEF ReadPastEnd
<1>3. CASE ReadBuffer(len)
  <2>1. /\ Sgetn(len) \in 0 .. MaxRead
        /\ getPos + Sgetn(len) \in Start .. StreamEnd
        /\ getPos - Start \in 0 .. MaxOffset
    BY DEF Sgetn
  <2>2. ret' \in Answers
    BY <1>1, <1>3, <2>1, AnswersTyped DEF ReadBuffer
  <2>3. QED
    BY <2>1, <2>2, <1>3 DEF ReadBuffer
<1>4. CASE ReadThrows(len)
  <2>1. \A consumed \in 0 .. Sgetn(len) : getPos + consumed \in Start .. StreamEnd
    BY DEF Sgetn
  <2>2. ret' \in Answers
    BY <1>1, <1>4, AnswersTyped DEF ReadThrows
  <2>3. QED
    BY <2>1, <2>2, <1>4 DEF ReadThrows
<1>5. QED
  BY <1>2, <1>3, <1>4 DEF Read

\* seek() keeps Inv on each of its paths, the failed calls of the buffer included.
LEMMA SeekInv ==
  ASSUME Inv,
         NEW origin \in Origins, NEW offset \in Offsets(origin),
         Seek(SeekCall(offset, origin))
  PROVE  Inv'
<1>. USE StreamAssumption, StartAssumption DEF Inv, TypeOK, PastEndConsistent, StreamEnd, None
<1>. DEFINE call == SeekCall(offset, origin)
            target == SeekTarget(offset, origin, Position, StreamEnd - Start)
<1>1. call \in Calls /\ offset \in Int
  BY CallsTyped
<1>2. call.arg = offset /\ call.origin = origin
  BY DEF SeekCall
<1>3. CASE SeekUnrepresentable(call)
  <2>1. ret' \in Answers
    BY <1>1, <1>3, AnswersTyped DEF SeekUnrepresentable
  <2>2. QED
    BY <2>1, <1>3 DEF SeekUnrepresentable
<1>4. CASE SeekAdapter(call)
  <2>1. offset <= MaxOffset
    BY <1>2, <1>4 DEF SeekAdapter
  <2>2. target \in {None} \cup (0 .. MaxOffset)
    BY <1>1, <2>1, PositionTyped, SeekTargetExact
  <2>3. CASE SeekQueryFails(call)
    <3>1. ret' \in Answers
      BY <1>1, <2>3, AnswersTyped DEF SeekQueryFails
    <3>2. QED
      BY <3>1, <2>3 DEF SeekQueryFails
  <2>4. CASE SeekNoTarget(call, target)
    <3>1. ret' \in Answers
      BY <1>1, <2>4, AnswersTyped DEF SeekNoTarget
    <3>2. QED
      BY <3>1, <2>4 DEF SeekNoTarget
  <2>5. CASE SeekPastEnd(call, target)
    <3>1. target \in 0 .. MaxOffset /\ target > Length
      BY <2>2, <2>5 DEF SeekPastEnd
    <3>2. ret' \in Answers
      BY <1>1, <2>5, <3>1, AnswersTyped DEF SeekPastEnd
    <3>3. QED
      BY <3>1, <3>2, <2>5 DEF SeekPastEnd
  <2>6. CASE SeekInside(call, target)
    <3>1. target \in 0 .. MaxOffset /\ target <= Length
      BY <2>2, <2>6 DEF SeekInside
    <3>2. ret' \in Answers
      BY <1>1, <2>6, <3>1, AnswersTyped DEF SeekInside
    <3>3. QED
      BY <3>1, <3>2, <2>6 DEF SeekInside
  <2>7. QED
    BY <1>2, <1>4, <2>3, <2>4, <2>5, <2>6 DEF SeekAdapter
<1>5. QED
  BY <1>3, <1>4 DEF Seek

\* Every reachable state of the adapter is well typed and its two records of
\* the position agree.
THEOREM Invariance == Spec => []Inv
<1>1. Inv /\ [Next]_vars => Inv'
  <2>1. Inv /\ Next => Inv'
    BY ReadInv, SeekInv DEF Next
  <2>2. Inv /\ UNCHANGED vars => Inv'
    BY DEF Inv, TypeOK, PastEndConsistent, vars
  <2>3. QED
    BY <2>1, <2>2
<1>2. QED
  BY InitInv, <1>1, PTL DEF Spec

\* The adapter never stands before start_ nor past the end of its buffer.
THEOREM TypeCorrect == Spec => []TypeOK
<1>1. Inv => TypeOK
  BY DEF Inv
<1>2. QED
  BY Invariance, <1>1, PTL

\* past_end_ is set only past the data, with the buffer waiting at its end.
THEOREM PastEndAlwaysConsistent == Spec => []PastEndConsistent
<1>1. Inv => PastEndConsistent
  BY DEF Inv
<1>2. QED
  BY Invariance, <1>1, PTL

-----------------------------------------------------------------------------
(* What one call does, in terms of the position *)

Left(pos) == IF pos < Length THEN Length - pos ELSE 0

\* read() delivers what is asked for or left, or throws having consumed some.
LEMMA ReadEffect ==
  ASSUME Inv, NEW len \in 0 .. MaxRead, Read(len)
  PROVE  \/ /\ ret' = Answer(ReadCall(len), Position, Least(len, Left(Position)))
            /\ Position' = Position + Least(len, Left(Position))
         \/ /\ Faulty
            /\ ret' = Failure(ReadCall(len))
            /\ Position' \in Position .. Length
<1>. USE StreamAssumption, StartAssumption
     DEF Inv, TypeOK, PastEndConsistent, StreamEnd, None, Position, Left, Least
<1>1. CASE ReadPastEnd(len)
  BY <1>1 DEF ReadPastEnd
<1>2. CASE ReadBuffer(len)
  <2>1. Sgetn(len) = Least(len, Left(Position)) /\ Position = getPos - Start
    BY <1>2 DEF ReadBuffer, Sgetn
  <2>2. Position' = Position + Sgetn(len)
    BY <1>2, <2>1 DEF ReadBuffer, Sgetn
  <2>3. QED
    BY <1>2, <2>1, <2>2 DEF ReadBuffer
<1>3. CASE ReadThrows(len)
  <2>1. Position' \in Position .. Length
    BY <1>3 DEF ReadThrows, Sgetn
  <2>2. QED
    BY <1>3, <2>1 DEF ReadThrows
<1>4. QED
  BY <1>1, <1>2, <1>3 DEF Read

\* seek() goes to the ideal target when that is a position; otherwise, or when
\* the stream buffer fails it, it stays or ends at the end of the data.
LEMMA SeekEffect ==
  ASSUME Inv,
         NEW origin \in Origins, NEW offset \in Offsets(origin),
         Seek(SeekCall(offset, origin))
  PROVE  LET sum == SeekBase(origin, Position, Length) + offset
         IN  \/ /\ sum \in 0 .. MaxOffset
                /\ Position' = sum
                /\ ret' = Answer(SeekCall(offset, origin), sum, 0)
             \/ /\ Faulty \/ sum \notin 0 .. MaxOffset
                /\ Position' \in {Position, Length}
                /\ ret' = Failure(SeekCall(offset, origin))
<1>. DEFINE call == SeekCall(offset, origin)
            sum == SeekBase(origin, Position, Length) + offset
            target == SeekTarget(offset, origin, Position, StreamEnd - Start)
<1>. USE StreamAssumption, StartAssumption
<1>1. call.arg = offset /\ call.origin = origin
  BY DEF SeekCall
<1>2. offset \in Int /\ Position \in 0 .. MaxOffset
  BY CallsTyped, PositionTyped DEF Inv
<1>3. StreamEnd - Start = Length
  BY DEF StreamEnd
<1>4. SeekBase(origin, Position, Length) \in 0 .. MaxOffset
  BY <1>2 DEF SeekBase, Origins
<1>. HIDE DEF call
<1>5. CASE SeekUnrepresentable(call)
  <2>1. offset > MaxOffset /\ origin = "start"
    BY <1>1, <1>5, <1>2 DEF SeekUnrepresentable, Offsets, Origins
  <2>2. sum \notin 0 .. MaxOffset
    BY <2>1, <1>2 DEF SeekBase
  <2>3. Position' = Position /\ ret' = Failure(call)
    BY <1>5 DEF SeekUnrepresentable, Position
  <2>4. QED
    BY <2>2, <2>3 DEF call
<1>6. CASE SeekAdapter(call)
  <2>1. target = IF sum \in 0 .. MaxOffset THEN sum ELSE None
    <3>1. offset <= MaxOffset
      BY <1>1, <1>6 DEF SeekAdapter
    <3>2. Length \in 0 .. MaxOffset
      OBVIOUS
    <3>3. SeekTarget(offset, origin, Position, Length) = IF sum \in 0 .. MaxOffset THEN sum ELSE None
      BY <3>1, <3>2, <1>2, SeekTargetExact
    <3>4. QED
      BY <3>3, <1>3
  <2>2. CASE SeekQueryFails(call)
    <3>1. Position' \in {Position, Length}
      BY <2>2, <1>3 DEF SeekQueryFails, Position, Inv, TypeOK, StreamEnd
    <3>2. QED
      BY <2>2, <3>1 DEF SeekQueryFails, call
  <2>3. CASE SeekNoTarget(call, target)
    <3>1. sum \notin 0 .. MaxOffset
      BY <2>1, <2>3 DEF SeekNoTarget, None
    <3>2. Position' \in {Position, Length}
      BY <2>3, <1>3 DEF SeekNoTarget, Position
    <3>3. QED
      BY <2>3, <3>1, <3>2 DEF SeekNoTarget, call
  <2>4. CASE SeekPastEnd(call, target)
    <3>1. target = sum /\ sum \in 0 .. MaxOffset
      BY <1>3, <2>1, <2>4 DEF SeekPastEnd, None
    <3>2. Position' = sum
      BY <2>4, <3>1 DEF SeekPastEnd, Position, None
    <3>3. QED
      BY <3>1, <3>2, <2>4 DEF SeekPastEnd, call
  <2>5. CASE SeekInside(call, target)
    <3>1. target = sum /\ sum \in 0 .. MaxOffset /\ sum \in Int
      BY <1>2, <1>4, <2>1, <2>5 DEF SeekInside
    <3>2. CASE getPos' = Start + target /\ ret' = Answer(call, target, 0)
      <4>1. Position' = sum
        BY <2>5, <3>1, <3>2 DEF SeekInside, Position
      <4>2. QED
        BY <3>1, <3>2, <4>1 DEF call
    <3>3. CASE Faulty /\ getPos' = StreamEnd /\ ret' = Failure(call)
      <4>1. Position' = Length
        BY <2>5, <3>3 DEF SeekInside, Position, StreamEnd
      <4>2. QED
        BY <3>3, <4>1 DEF call
    <3>4. QED
      BY <2>5, <3>2, <3>3 DEF SeekInside
  <2>6. QED
    BY <1>1, <1>6, <2>2, <2>3, <2>4, <2>5 DEF SeekAdapter
<1>7. QED
  BY <1>5, <1>6 DEF Seek, call

-----------------------------------------------------------------------------
(* Refinement: each step of the adapter is a step of the seekable file. *)

\* The file's names for calls and answers are the adapter's.
LEMMA FileCalls ==
  /\ \A len : File!ReadCall(len) = ReadCall(len)
  /\ \A offset, origin : File!SeekCall(offset, origin) = SeekCall(offset, origin)
  /\ \A call, pos, count : File!Answer(call, pos, count) = Answer(call, pos, count)
  /\ \A call : File!Failure(call) = Failure(call)
BY DEF SeekCall, File!SeekCall, ReadCall, File!ReadCall, Answer, File!Answer, Failure, File!Failure

\* Each path of read() is a read, or a failed read, of the seekable file.
LEMMA ReadRefines ==
  ASSUME Inv, NEW len \in 0 .. MaxRead, Read(len)
  PROVE  File!Next
<1>1. File!Available = Left(Position)
  BY DEF File!Available, Left
<1>2. File!Read(len) \/ (Faulty /\ File!Fail(File!ReadCall(len)))
  BY <1>1, ReadEffect, FileCalls DEF File!Read, File!Fail, Least
<1>3. QED
  BY <1>2 DEF File!Next

\* Each path of seek() is a seek of the file, or a failure that leaves the
\* position or moves it to the end of the data.
LEMMA SeekRefines ==
  ASSUME Inv,
         NEW origin \in Origins, NEW offset \in Offsets(origin),
         Seek(SeekCall(offset, origin))
  PROVE  File!Next
<1>1. File!Target(offset, origin) = SeekBase(origin, Position, Length) + offset
  BY DEF File!Target, File!SeekBase, SeekBase
<1>2. \/ File!Seek(offset, origin)
      \/ (Faulty \/ ~File!Legal(offset, origin)) /\ File!Fail(File!SeekCall(offset, origin))
  BY <1>1, SeekEffect, FileCalls DEF File!Seek, File!Legal, File!Fail
<1>3. QED
  BY <1>2 DEF File!Next, File!Origins, Origins, File!Offsets, Offsets

\* The adapter implements Read + Seek over a file, for every stream it is made
\* on: success is always the file's answer, failures move the position only
\* inside the data.
THEOREM Refinement == Spec => ImplementsFile
<1>1. Init => File!Init
  BY StartAssumption
     DEF Init, File!Init, Position, Answer, File!Answer, NoCall, File!NoCall, ReadCall, File!ReadCall
<1>2. Inv /\ [Next]_vars => [File!Next]_(File!vars)
  <2>1. Inv /\ Next => File!Next
    BY ReadRefines, SeekRefines DEF Next
  <2>2. UNCHANGED vars => UNCHANGED File!vars
    BY DEF vars, File!vars, Position
  <2>3. QED
    BY <2>1, <2>2
<1>3. QED
  BY Invariance, <1>1, <1>2, PTL DEF Spec, ImplementsFile, File!Spec

-----------------------------------------------------------------------------
(* The buffer on top: what is buffered is data in front of the adapter *)

\* Between a failure and the next absolute seek the buffer may be stale; it is
\* always data, and never more than the adapter has left behind it.
BufferInv ==
  /\ Inv
  /\ rem \in 0 .. Capacity
  /\ from \in 0 .. MaxOffset
  /\ pending \in Offsets("current")
  /\ lost \in BOOLEAN
  /\ answer \in Answers
  /\ PositionNeverWraps
  /\ pending # 0 => rem = 0
  /\ ~lost /\ rem > 0 => from + rem = Position

\* A new buffer is empty over a new adapter.
LEMMA BufferInit == BufferedInit => BufferInv
<1>. SUFFICES ASSUME BufferedInit PROVE BufferInv
  OBVIOUS
<1>. USE StreamAssumption, StartAssumption, CapacityAssumption
<1>1. Inv /\ answer \in Answers
  BY InitInv DEF BufferedInit, Inv, TypeOK
<1>2. Position \in 0 .. MaxOffset
  BY <1>1, PositionTyped DEF Inv
<1>3. rem = 0 /\ from = 0 /\ pending = 0 /\ lost = FALSE
  BY DEF BufferedInit
<1>4. rem \in 0 .. Capacity /\ from \in 0 .. MaxOffset /\ pending \in Offsets("current")
  BY <1>3 DEF Offsets
<1>5. PositionNeverWraps
  BY <1>2, <1>3 DEF PositionNeverWraps
<1>6. lost \in BOOLEAN /\ ~(rem > 0)
  <2>1. lost \in BOOLEAN
    BY <1>3, Zenon
  <2>2. ~(rem > 0)
    BY <1>3
  <2>3. QED
    BY <2>1, <2>2
<1>7. QED
  BY <1>1, <1>3, <1>4, <1>5, <1>6, Zenon DEF BufferInv

\* A read out of the buffer takes bytes from its front.
LEMMA FromBufferInv ==
  ASSUME BufferInv, NEW len \in 0 .. MaxRead, pending = 0, pending' = 0, FromBuffer(len)
  PROVE  BufferInv'
<1>. USE StreamAssumption, StartAssumption, CapacityAssumption
<1>1. UNCHANGED vars /\ Position' = Position /\ Inv'
  BY DEF FromBuffer, BufferInv, vars, Position, Inv, TypeOK, PastEndConsistent
<1>2. Position \in 0 .. MaxOffset
  BY PositionTyped DEF BufferInv, Inv
<1>3. Least(len, rem) \in 0 .. rem /\ Least(len, rem) \in 0 .. MaxRead
  BY DEF BufferInv, Least
<1>4. answer' \in Answers
  <2>1. ReadCall(len) \in Calls
    BY CallsTyped
  <2>2. QED
    BY <1>3, <2>1, AnswersTyped DEF FromBuffer, BufferInv
<1>5. from' = from + Least(len, rem) /\ rem' = rem - Least(len, rem) /\ lost' = lost /\ rem > 0
  BY DEF FromBuffer
<1>6. from' + rem' = from + rem /\ from' \in 0 .. MaxOffset /\ rem' \in 0 .. Capacity /\ rem' <= rem
  BY <1>2, <1>3, <1>5 DEF BufferInv, PositionNeverWraps
<1>7. QED
  BY <1>1, <1>2, <1>4, <1>5, <1>6 DEF BufferInv, PositionNeverWraps

\* What a read of the adapter can answer, as the buffer sees it.
LEMMA ReadDelivers ==
  ASSUME Inv, NEW len \in 0 .. MaxRead, Read(len)
  PROVE  /\ Inv'
         /\ Position \in 0 .. MaxOffset /\ Position' \in 0 .. MaxOffset
         /\ \/ /\ ret'.ok
               /\ ret'.from = Position /\ ret'.count = Least(len, Left(Position))
               /\ ret' = Answer(ReadCall(len), Position, Least(len, Left(Position)))
               /\ Position' = Position + ret'.count
               /\ ret'.count \in 0 .. len
               /\ ret'.count > 0 => Position' <= Length
            \/ /\ ~ret'.ok
               /\ ret' = Failure(ReadCall(len))
               /\ Faulty
<1>. USE StreamAssumption
<1>1. Inv' /\ Position \in 0 .. MaxOffset
  BY ReadInv, PositionTyped DEF Inv
<1>2. Position' \in 0 .. MaxOffset
  BY <1>1, PositionStaysTyped DEF Inv
<1>3. CASE Faulty /\ ret' = Failure(ReadCall(len))
  BY <1>1, <1>2, <1>3 DEF Failure
<1>4. CASE /\ ret' = Answer(ReadCall(len), Position, Least(len, Left(Position)))
           /\ Position' = Position + Least(len, Left(Position))
  <2>1. ret'.ok /\ ret'.from = Position /\ ret'.count = Least(len, Left(Position))
    BY <1>4 DEF Answer
  <2>2. Least(len, Left(Position)) \in 0 .. len
    BY <1>1 DEF Least, Left
  <2>3. Least(len, Left(Position)) > 0 => Position + Least(len, Left(Position)) <= Length
    BY <1>1 DEF Least, Left
  <2>4. QED
    BY <1>1, <1>2, <1>4, <2>1, <2>2, <2>3
<1>5. QED
  BY <1>3, <1>4, ReadEffect

\* A large read with nothing buffered is the adapter's.
LEMMA BypassInv ==
  ASSUME BufferInv, NEW len \in 0 .. MaxRead, pending = 0, pending' = 0, Bypass(len)
  PROVE  BufferInv'
<1>1. Inv' /\ Position' \in 0 .. MaxOffset /\ rem = 0 /\ rem' = 0 /\ from' = from
      /\ answer' = ret' /\ lost' \in BOOLEAN
  BY ReadDelivers DEF Bypass, BufferInv
<1>2. QED
  BY <1>1 DEF BufferInv, PositionNeverWraps, Inv, TypeOK

\* A small read fills the buffer, delivers from its front and keeps the rest.
LEMMA FillInv ==
  ASSUME BufferInv, NEW len \in 0 .. MaxRead, pending = 0, pending' = 0, Fill(len)
  PROVE  BufferInv'
<1>. USE StreamAssumption, StartAssumption, CapacityAssumption
<1>1. Read(Capacity) /\ Capacity \in 0 .. MaxRead /\ Capacity \in Nat /\ rem = 0 /\ len < Capacity /\ Inv
  BY DEF Fill, BufferInv
<1>2. ReadCall(len) \in Calls
  BY CallsTyped
<1>3. Inv' /\ Position' \in 0 .. MaxOffset /\ Position \in 0 .. MaxOffset
  BY <1>1, ReadDelivers
<1>4. CASE ret'.ok
  <2>1. /\ ret'.from = Position /\ ret'.count \in 0 .. Capacity /\ Position' = Position + ret'.count
        /\ ret'.count > 0 => Position' <= Length
    BY <1>1, <1>4, ReadDelivers
  <2>2. /\ answer' = Answer(ReadCall(len), Position, Least(len, ret'.count))
        /\ from' = Position + answer'.count /\ rem' = ret'.count - answer'.count /\ lost' = lost
    BY <1>4, <2>1 DEF Fill
  <2>3. answer'.count = Least(len, ret'.count) /\ answer'.count \in 0 .. ret'.count
        /\ Least(len, ret'.count) \in 0 .. MaxRead
    BY <2>1, <2>2 DEF Answer, Least
  <2>4. answer' \in Answers
    BY <1>2, <1>3, <2>2, <2>3, AnswersTyped
  <2>5. /\ rem' \in 0 .. Capacity /\ from' \in 0 .. MaxOffset
        /\ rem' <= Position' /\ (rem' > 0 => from' + rem' = Position' /\ Position' <= Length)
    BY <1>1, <1>3, <2>1, <2>2, <2>3
  <2>6. QED
    BY <1>1, <1>3, <2>2, <2>4, <2>5 DEF BufferInv, PositionNeverWraps
<1>5. CASE ~ret'.ok
  <2>1. answer' = Failure(ReadCall(len)) /\ lost' = TRUE /\ from' = from /\ rem' = 0
    BY <1>1, <1>5 DEF Fill, Failed
  <2>2. answer' \in Answers
    BY <1>2, <2>1, AnswersTyped
  <2>3. QED
    BY <1>3, <2>1, <2>2 DEF BufferInv, PositionNeverWraps
<1>6. QED
  BY <1>4, <1>5

\* What a seek of the adapter can answer, as the buffer sees it.
LEMMA SeekDelivers ==
  ASSUME Inv,
         NEW origin \in Origins, NEW offset \in Offsets(origin),
         Seek(SeekCall(offset, origin))
  PROVE  LET sum == SeekBase(origin, Position, Length) + offset
         IN  /\ Inv'
             /\ Position \in 0 .. MaxOffset /\ Position' \in 0 .. MaxOffset /\ offset \in Int
             /\ \/ /\ ret'.ok
                   /\ ret'.from = sum
                   /\ sum \in 0 .. MaxOffset
                   /\ Position' = sum
                \/ /\ ~ret'.ok
                   /\ Faulty \/ sum \notin 0 .. MaxOffset
                   /\ Position' \in {Position, Length}
<1>. USE StreamAssumption
<1>1. Inv' /\ Position \in 0 .. MaxOffset /\ offset \in Int
  BY SeekInv, PositionTyped, CallsTyped DEF Inv
<1>2. Position' \in 0 .. MaxOffset
  BY <1>1, PositionStaysTyped DEF Inv
<1>3. QED
  BY <1>1, <1>2, SeekEffect DEF Answer, Failure

\* The end of a seek keeps the invariant: the buffer is empty, or it stays and
\* the adapter did not come in front of it.
LEMMA FinishInv ==
  ASSUME BufferInv, NEW call \in Calls, Inv', Position' \in 0 .. MaxOffset,
         \/ ret'.ok /\ ret'.from = Position'
         \/ ~ret'.ok /\ Position' \in {Position, Length},
         from' = from, pending' = 0, Finish(call)
  PROVE  BufferInv'
<1>. USE StreamAssumption, CapacityAssumption
<1>1. pending' \in Offsets("current")
  BY DEF Offsets
<1>2. CASE ret'.ok
  <2>1. answer' \in Answers
    BY <1>2, AnswersTyped DEF Finish
  <2>2. rem' = 0 /\ lost' \in BOOLEAN
    BY <1>2 DEF Finish, BufferInv
  <2>3. QED
    BY <1>1, <2>1, <2>2 DEF BufferInv, PositionNeverWraps
<1>3. CASE ~ret'.ok
  <2>1. answer' \in Answers /\ rem' = rem /\ lost' = TRUE
    BY <1>3, AnswersTyped DEF Finish, Failed
  <2>2. rem <= Position' /\ (rem > 0 => from + rem <= Length)
    BY <1>3 DEF BufferInv, PositionNeverWraps
  <2>3. PositionNeverWraps'
    BY <2>1, <2>2 DEF PositionNeverWraps
  <2>4. QED
    BY <1>1, <2>1, <2>3 DEF BufferInv
<1>4. QED
  BY <1>2, <1>3

\* A seek of the BufReader ends with an empty buffer, or stops half way with the
\* rest of it pending.
LEMMA BufferedSeekInv ==
  ASSUME BufferInv, NEW origin \in Origins, NEW offset \in Offsets(origin),
         BufferedSeek(SeekCall(offset, origin))
  PROVE  BufferInv'
<1>. DEFINE call == SeekCall(offset, origin)
            arg == Adjusted(call)
<1>1. call.origin = origin /\ call \in Calls
  BY CallsTyped DEF SeekCall
<1>2. arg \in Offsets(origin) /\ Seek(SeekCall(arg, origin)) /\ Inv
  BY <1>1 DEF BufferedSeek, BufferInv
<1>3. /\ Inv' /\ Position' \in 0 .. MaxOffset
      /\ \/ ret'.ok /\ ret'.from = Position'
         \/ ~ret'.ok /\ Position' \in {Position, Length}
  BY <1>2, SeekDelivers
<1>4. from' = from /\ pending' = 0 /\ Finish(call)
  BY DEF BufferedSeek
<1>. HIDE DEF call
<1>5. QED
  BY <1>1, <1>3, <1>4, FinishInv

\* What is buffered can be stepped back over.
LEMMA BackIsOffset ==
  ASSUME BufferInv
  PROVE  /\ -rem \in Offsets("current") /\ "current" \in Origins
         /\ SeekBase("current", Position, Length) + (-rem) = Position - rem
         /\ Position - rem \in 0 .. MaxOffset
<1>1. Position \in 0 .. MaxOffset
  BY PositionTyped DEF BufferInv, Inv
<1>2. rem \in Nat /\ rem <= Position
  BY CapacityAssumption, StreamAssumption DEF BufferInv, PositionNeverWraps
<1>3. -rem \in Int /\ -rem >= -(MaxOffset + 1) /\ -rem <= MaxOffset
  BY <1>1, <1>2, StreamAssumption
<1>4. QED
  BY <1>1, <1>2, <1>3, StreamAssumption DEF Offsets, Origins, SeekBase

\* Seeking back over the buffer, and then on, keeps the invariant.
LEMMA SeekBackInv ==
  ASSUME BufferInv, NEW origin \in Origins, NEW offset \in Offsets(origin),
         SeekBack(SeekCall(offset, origin))
  PROVE  BufferInv'
<1>. USE StreamAssumption, CapacityAssumption
<1>. DEFINE call == SeekCall(offset, origin)
<1>1. call.origin = origin /\ call.arg = offset /\ call \in Calls
  BY CallsTyped DEF SeekCall
<1>2. origin = "current"
  BY <1>1 DEF SeekBack, Adjusted
<1>3. Seek(SeekCall(-rem, "current")) /\ Inv
  BY DEF SeekBack, BufferInv
<1>4. /\ Inv' /\ Position' \in 0 .. MaxOffset
      /\ \/ ret'.ok
         \/ ~ret'.ok /\ Position' \in {Position, Length}
  BY <1>3, BackIsOffset, SeekDelivers
<1>5. from' = from
  BY DEF SeekBack
<1>. HIDE DEF call
<1>6. CASE ret'.ok
  <2>1. rem' = 0 /\ pending' = offset /\ answer' = answer /\ lost' = lost
    BY <1>1, <1>6 DEF SeekBack, call
  <2>2. QED
    BY <1>2, <1>4, <1>5, <2>1 DEF BufferInv, PositionNeverWraps
<1>7. CASE ~ret'.ok
  <2>1. answer' = Failure(call) /\ lost' = TRUE /\ rem' = rem /\ pending' = pending
    BY <1>7 DEF SeekBack, Failed, call
  <2>2. answer' \in Answers
    BY <1>1, <2>1, AnswersTyped
  <2>3. rem <= Position' /\ (rem > 0 => from + rem <= Length)
    BY <1>4, <1>7 DEF BufferInv, PositionNeverWraps
  <2>4. PositionNeverWraps'
    BY <1>5, <2>1, <2>3 DEF PositionNeverWraps
  <2>5. QED
    BY <1>4, <1>5, <2>1, <2>2, <2>4 DEF BufferInv
<1>8. QED
  BY <1>6, <1>7

\* The second half of a seek that no single i64 could express.
LEMMA SeekOnInv ==
  ASSUME BufferInv, SeekOn
  PROVE  BufferInv'
<1>1. "current" \in Origins /\ pending \in Offsets("current") /\ Inv
  BY DEF Origins, BufferInv
<1>2. Seek(SeekCall(pending, "current")) /\ SeekCall(pending, "current") \in Calls
  BY <1>1, CallsTyped DEF SeekOn
<1>3. /\ Inv' /\ Position' \in 0 .. MaxOffset
      /\ \/ ret'.ok /\ ret'.from = Position'
         \/ ~ret'.ok /\ Position' \in {Position, Length}
  BY <1>1, <1>2, SeekDelivers
<1>4. from' = from /\ pending' = 0 /\ Finish(SeekCall(pending, "current"))
  BY DEF SeekOn
<1>5. QED
  BY <1>2, <1>3, <1>4, FinishInv

\* Asking for the position moves neither the adapter nor the buffer, unless
\* the adapter fails and ends at the end of the data.
LEMMA StreamPositionInv ==
  ASSUME BufferInv, StreamPosition
  PROVE  BufferInv'
<1>. USE StreamAssumption, CapacityAssumption
<1>1. "current" \in Origins /\ 0 \in Offsets("current") /\ Inv
  BY DEF Origins, BufferInv, Offsets
<1>2. Seek(SeekCall(0, "current")) /\ SeekCall(0, "current") \in Calls
  BY <1>1, CallsTyped DEF StreamPosition
<1>3. Position \in 0 .. MaxOffset /\ SeekBase("current", Position, Length) + 0 = Position
  BY PositionTyped DEF BufferInv, Inv, SeekBase
<1>4. /\ Inv' /\ Position' \in 0 .. MaxOffset
      /\ \/ ret'.ok /\ ret'.from = Position /\ Position' = Position
         \/ ~ret'.ok /\ Position' \in {Position, Length}
  BY <1>1, <1>2, <1>3, SeekDelivers
<1>5. from' = from /\ rem' = rem /\ pending' = pending
  BY DEF StreamPosition
<1>6. PositionNeverWraps'
  BY <1>4, <1>5 DEF BufferInv, PositionNeverWraps
<1>7. CASE ret'.ok
  <2>1. answer' = Answer(SeekCall(0, "current"), Position - rem, 0) /\ lost' = lost
    BY <1>4, <1>7 DEF StreamPosition
  <2>2. answer' \in Answers
    BY <1>2, <2>1, BackIsOffset, AnswersTyped
  <2>3. QED
    BY <1>4, <1>5, <1>6, <1>7, <2>1, <2>2 DEF BufferInv
<1>8. CASE ~ret'.ok
  <2>1. answer' = Failure(SeekCall(0, "current")) /\ lost' = TRUE
    BY <1>8 DEF StreamPosition, Failed
  <2>2. answer' \in Answers
    BY <1>2, <2>1, AnswersTyped
  <2>3. QED
    BY <1>4, <1>5, <1>6, <2>1, <2>2 DEF BufferInv
<1>9. QED
  BY <1>7, <1>8

\* Every step of las-rs on the buffered adapter keeps the invariant.
LEMMA BufferedNextInv == BufferInv /\ [BufferedNext]_allVars => BufferInv'
<1>. SUFFICES ASSUME BufferInv, [BufferedNext]_allVars PROVE BufferInv'
  OBVIOUS
<1>1. CASE UNCHANGED allVars
  BY <1>1 DEF allVars, vars, BufferInv, Inv, TypeOK, PastEndConsistent, PositionNeverWraps, Position
<1>2. CASE \E len \in 0 .. MaxRead : BufferedRead(len)
  BY <1>2, FromBufferInv, BypassInv, FillInv DEF BufferedRead
<1>3. CASE \E origin \in Origins : \E offset \in Offsets(origin) :
             BufferedSeek(SeekCall(offset, origin)) \/ SeekBack(SeekCall(offset, origin))
  BY <1>3, BufferedSeekInv, SeekBackInv
<1>4. CASE SeekOn
  BY <1>4, SeekOnInv
<1>5. CASE StreamPosition
  BY <1>5, StreamPositionInv
<1>6. QED
  BY <1>1, <1>2, <1>3, <1>4, <1>5 DEF BufferedNext

\* Every reachable state of adapter and buffer is well typed, and the buffer is
\* right about the data in front of the adapter until a call fails.
THEOREM BufferInvariance == BufferedSpec => []BufferInv
BY BufferInit, BufferedNextInv, PTL DEF BufferedSpec

\* stream_position never subtracts more than the adapter's position, for any
\* capacity and after any failures, so the query limits.rs makes never panics.
THEOREM PositionsNeverWrap == BufferedSpec => []PositionNeverWraps
<1>1. BufferInv => PositionNeverWraps
  BY DEF BufferInv
<1>2. QED
  BY BufferInvariance, <1>1, PTL

-----------------------------------------------------------------------------
(* The buffered stream is a file that recovers from failures. *)

\* The abstract names for calls and answers are the adapter's.
LEMMA KnownCalls ==
  /\ \A len : Known!ReadCall(len) = ReadCall(len)
  /\ \A offset, origin : Known!SeekCall(offset, origin) = SeekCall(offset, origin)
  /\ \A call, pos, count : Known!Answer(call, pos, count) = Answer(call, pos, count)
  /\ \A call : Known!Failure(call) = Failure(call)
  /\ Known!Origins = Origins /\ Known!Calls = Calls /\ Known!Answers = Answers
  /\ \A origin : Known!Offsets(origin) = Offsets(origin)
<1>1. /\ \A len : Known!ReadCall(len) = ReadCall(len)
      /\ \A offset, origin : Known!SeekCall(offset, origin) = SeekCall(offset, origin)
  BY DEF SeekCall, Known!SeekCall, ReadCall, Known!ReadCall
<1>2. /\ \A call, pos, count : Known!Answer(call, pos, count) = Answer(call, pos, count)
      /\ \A call : Known!Failure(call) = Failure(call)
  BY DEF Answer, Known!Answer, Failure, Known!Failure
<1>3. Known!Origins = Origins /\ \A origin : Known!Offsets(origin) = Offsets(origin)
  BY DEF Known!Origins, Origins, Known!Offsets, Offsets
<1>4. Known!Calls = Calls
  BY <1>1, <1>3, Zenon DEF Known!Calls, Calls, Known!ReadCall, ReadCall, Known!SeekCall, SeekCall,
     Known!Origins, Origins, Known!Offsets, Offsets
<1>5. QED
  BY <1>1, <1>2, <1>3, <1>4 DEF Known!Answers, Answers

\* A read that starts where las-rs stands is a read of the abstract file.
LEMMA AbstractRead ==
  ASSUME NEW len \in 0 .. MaxRead, NEW count \in 0 .. len, ~lost, ~lost',
         Position - rem \in 0 .. MaxOffset, Position' - rem' = Position - rem + count,
         count <= Left(Position - rem),
         count = 0 => len = 0 \/ Position - rem >= Length,
         answer' = Answer(ReadCall(len), Position - rem, count)
  PROVE  Known!Next
<1>. USE StreamAssumption
<1>1. Known!Read(len)
  BY KnownCalls DEF Known!Read, Known!None, None, Left
<1>2. QED
  BY <1>1 DEF Known!Next

\* A seek to the ideal target is a seek of the abstract file.
LEMMA AbstractSeek ==
  ASSUME NEW origin \in Origins, NEW offset \in Offsets(origin), NEW sum \in 0 .. MaxOffset,
         origin = "current" => ~lost /\ Position - rem \in 0 .. MaxOffset,
         sum = SeekBase(origin, Position - rem, Length) + offset,
         ~lost', Position' - rem' = sum,
         answer' = Answer(SeekCall(offset, origin), sum, 0)
  PROVE  Known!Next
<1>. USE StreamAssumption
<1>1. Known!Target(offset, origin) = sum
  BY DEF Known!Target, Known!SeekBase, SeekBase, Origins
<1>2. Known!Seek(offset, origin)
  BY <1>1, KnownCalls DEF Known!Seek, Known!None, None
<1>3. QED
  BY <1>2, KnownCalls DEF Known!Next

\* Once the position is lost, any answer to a read or a relative seek will do.
LEMMA AbstractAstray ==
  ASSUME lost, lost', answer' \in Answers,
         \/ \E len \in 0 .. MaxRead : answer'.call = ReadCall(len)
         \/ \E offset \in Offsets("current") : answer'.call = SeekCall(offset, "current")
  PROVE  Known!Next
<1>1. CASE \E len \in 0 .. MaxRead : answer'.call = ReadCall(len)
  <2>1. PICK len \in 0 .. MaxRead : answer'.call = ReadCall(len)
    BY <1>1
  <2>2. Known!Astray(Known!ReadCall(len))
    BY <2>1, KnownCalls DEF Known!Astray, ReadCall, Known!None, None
  <2>3. QED
    BY <2>2 DEF Known!Next
<1>2. CASE \E offset \in Offsets("current") : answer'.call = SeekCall(offset, "current")
  <2>1. PICK offset \in Offsets("current") : answer'.call = SeekCall(offset, "current")
    BY <1>2
  <2>2. Known!Astray(Known!SeekCall(offset, "current"))
    BY <2>1, KnownCalls DEF Known!Astray, SeekCall, Known!None, None
  <2>3. "current" \in Origins
    BY DEF Origins
  <2>4. QED
    BY <2>2, <2>3, KnownCalls DEF Known!Next
<1>3. QED
  BY <1>1, <1>2

\* A read fails only when the stream may.
LEMMA AbstractReadFails ==
  ASSUME NEW len \in 0 .. MaxRead, Faulty, lost', answer' = Failure(ReadCall(len))
  PROVE  Known!Next
<1>1. Known!Fail(Known!ReadCall(len))
  BY KnownCalls DEF Known!Fail, Known!None, None
<1>2. QED
  BY <1>1 DEF Known!Next

\* A seek fails when the stream may, or when its target is no position.
LEMMA AbstractSeekFails ==
  ASSUME NEW origin \in Origins, NEW offset \in Offsets(origin),
         Faulty \/ lost \/ SeekBase(origin, Position - rem, Length) + offset \notin 0 .. MaxOffset,
         lost', answer' = Failure(SeekCall(offset, origin))
  PROVE  Known!Next
<1>1. Known!Fail(Known!SeekCall(offset, origin))
  BY KnownCalls DEF Known!Fail, Known!None, None
<1>2. CASE ~lost
  <2>1. Known!Target(offset, origin) = SeekBase(origin, Position - rem, Length) + offset
    BY <1>2 DEF Known!Target, Known!SeekBase, SeekBase
  <2>2. QED
    BY <1>1, <1>2, <2>1, KnownCalls DEF Known!Next
<1>3. CASE lost
  BY <1>1, <1>3, KnownCalls DEF Known!Next, Known!None, None
<1>4. QED
  BY <1>2, <1>3

\* Each path of a buffered read is a read of the abstract file, or goes astray.
LEMMA BufferedReadRefines ==
  ASSUME BufferInv, BufferInv', NEW len \in 0 .. MaxRead, BufferedRead(len)
  PROVE  Known!Next
<1>. USE StreamAssumption, CapacityAssumption
<1>1. Position \in 0 .. MaxOffset /\ rem \in Nat /\ Inv /\ answer' \in Answers /\ pending' = pending
  BY PositionTyped DEF BufferInv, Inv, BufferedRead
<1>2. CASE FromBuffer(len)
  <2>. DEFINE count == Least(len, rem)
  <2>1. /\ rem > 0 /\ answer' = Answer(ReadCall(len), from, count) /\ rem' = rem - count
        /\ lost' = lost /\ Position' = Position
    BY <1>2 DEF FromBuffer, vars, Position
  <2>2. count \in 0 .. len /\ count <= rem /\ (count = 0 => len = 0)
    BY <1>1, <2>1 DEF Least
  <2>. HIDE DEF count
  <2>3. CASE ~lost
    <3>1. from = Position - rem /\ from \in 0 .. MaxOffset /\ from + rem <= Length
      BY <2>1, <2>3, <1>1 DEF BufferInv, PositionNeverWraps
    <3>2. count <= Left(Position - rem) /\ Position' - rem' = Position - rem + count
      BY <1>1, <2>1, <2>2, <3>1 DEF Left
    <3>3. QED
      BY <2>1, <2>2, <2>3, <3>1, <3>2, AbstractRead
  <2>4. CASE lost
    BY <1>1, <2>1, <2>4, AbstractAstray DEF Answer
  <2>5. QED
    BY <2>3, <2>4
<1>3. CASE Bypass(len)
  <2>1. rem = 0 /\ rem' = 0 /\ Read(len) /\ answer' = ret' /\ lost' = (lost \/ ~ret'.ok)
    BY <1>3 DEF Bypass
  <2>2. CASE ret'.ok
    <3>. DEFINE count == Least(len, Left(Position))
    <3>1. answer' = Answer(ReadCall(len), Position, count) /\ Position' = Position + count
      BY <1>1, <2>1, <2>2, ReadDelivers
    <3>2. count \in 0 .. len /\ count <= Left(Position) /\ (count = 0 => len = 0 \/ Position >= Length)
      BY <1>1 DEF Least, Left
    <3>. HIDE DEF count
    <3>3. Position - rem = Position /\ Position' - rem' = Position + count
      BY <1>1, <2>1, <3>1, <3>2
    <3>4. CASE ~lost
      BY <1>1, <2>1, <2>2, <3>1, <3>2, <3>3, <3>4, AbstractRead
    <3>5. CASE lost
      <4>1. lost'
        BY <2>1, <3>5
      <4>2. answer'.call = ReadCall(len)
        BY <3>1 DEF Answer
      <4>3. QED
        BY <1>1, <3>5, <4>1, <4>2, AbstractAstray
    <3>6. QED
      BY <3>4, <3>5
  <2>3. CASE ~ret'.ok
    BY <1>1, <2>1, <2>3, ReadDelivers, AbstractReadFails
  <2>4. QED
    BY <2>2, <2>3
<1>4. CASE Fill(len)
  <2>1. rem = 0 /\ Capacity \in 0 .. MaxRead /\ len < Capacity /\ Read(Capacity)
    BY <1>4 DEF Fill
  <2>2. CASE ret'.ok
    <3>1. /\ ret'.from = Position /\ ret'.count = Least(Capacity, Left(Position))
          /\ Position' = Position + ret'.count
      BY <1>1, <2>1, <2>2, ReadDelivers
    <3>. DEFINE count == Least(len, ret'.count)
    <3>2. /\ answer' = Answer(ReadCall(len), Position, count)
          /\ answer'.count = count /\ rem' = ret'.count - count /\ lost' = lost
      BY <2>2, <3>1, <1>4 DEF Fill, Answer
    <3>3. count \in 0 .. len /\ count <= Left(Position) /\ (count = 0 => len = 0 \/ Position >= Length)
          /\ ret'.count \in Nat
      BY <1>1, <2>1, <3>1 DEF Least, Left
    <3>. HIDE DEF count
    <3>4. Position - rem = Position /\ Position' - rem' = Position + count
      BY <1>1, <2>1, <3>1, <3>2, <3>3
    <3>5. CASE ~lost
      BY <1>1, <3>2, <3>3, <3>4, <3>5, AbstractRead
    <3>6. CASE lost
      BY <1>1, <3>2, <3>6, AbstractAstray DEF Answer
    <3>7. QED
      BY <3>5, <3>6
  <2>3. CASE ~ret'.ok
    <3>1. Faulty
      BY <1>1, <2>1, <2>3, ReadDelivers
    <3>2. answer' = Failure(ReadCall(len)) /\ lost'
      BY <1>4, <2>3 DEF Fill, Failed
    <3>3. QED
      BY <3>1, <3>2, AbstractReadFails
  <2>4. QED
    BY <2>2, <2>3
<1>5. QED
  BY <1>2, <1>3, <1>4 DEF BufferedRead

\* The end of a seek, relative to where las-rs stands: the adapter was sent to
\* the target las-rs asked for.
LEMMA FinishRefines ==
  ASSUME BufferInv, NEW origin \in Origins, NEW offset \in Offsets(origin),
         NEW sum, sum = SeekBase(origin, Position - rem, Length) + offset,
         answer' \in Answers,
         \/ ret'.ok /\ ret'.from = sum /\ Position' = sum /\ sum \in 0 .. MaxOffset
         \/ ~ret'.ok /\ (Faulty \/ sum \notin 0 .. MaxOffset),
         Finish(SeekCall(offset, origin))
  PROVE  Known!Next
<1>. USE StreamAssumption
<1>1. Position - rem \in 0 .. MaxOffset
  BY BackIsOffset
<1>2. CASE ret'.ok
  <2>1. /\ rem' = 0 /\ lost' = (lost /\ origin = "current")
        /\ answer' = Answer(SeekCall(offset, origin), sum, 0)
        /\ sum \in 0 .. MaxOffset /\ Position' - rem' = sum
    BY <1>2 DEF Finish, SeekCall
  <2>2. CASE lost /\ origin = "current"
    BY <2>1, <2>2, AbstractAstray DEF Answer
  <2>3. CASE ~(lost /\ origin = "current")
    BY <1>1, <2>1, <2>3, AbstractSeek
  <2>4. QED
    BY <2>2, <2>3
<1>3. CASE ~ret'.ok
  <2>1. answer' = Failure(SeekCall(offset, origin)) /\ lost'
    BY <1>3 DEF Finish, Failed
  <2>2. QED
    BY <1>3, <2>1, AbstractSeekFails
<1>4. QED
  BY <1>2, <1>3

\* A seek through the buffer is a seek of the file, or one that is under way.
LEMMA BufferedSeekRefines ==
  ASSUME BufferInv, BufferInv', NEW origin \in Origins, NEW offset \in Offsets(origin),
         BufferedSeek(SeekCall(offset, origin))
  PROVE  Known!Next
<1>. USE StreamAssumption
<1>. DEFINE call == SeekCall(offset, origin)
            arg == Adjusted(call)
            sum == SeekBase(origin, Position - rem, Length) + offset
<1>1. call.origin = origin /\ call.arg = offset /\ offset \in Int
  BY CallsTyped DEF SeekCall
<1>2. arg \in Offsets(origin) /\ Seek(SeekCall(arg, origin)) /\ Inv /\ Finish(call) /\ answer' \in Answers
  BY <1>1 DEF BufferedSeek, BufferInv
<1>3. Position \in 0 .. MaxOffset /\ rem \in Nat
  BY PositionTyped, CapacityAssumption DEF BufferInv, Inv
<1>4. SeekBase(origin, Position, Length) + arg = sum
  BY <1>1, <1>3 DEF Adjusted, SeekBase, Origins
<1>. HIDE DEF sum, arg, call
<1>5. \/ ret'.ok /\ ret'.from = sum /\ Position' = sum /\ sum \in 0 .. MaxOffset
      \/ ~ret'.ok /\ (Faulty \/ sum \notin 0 .. MaxOffset)
  BY <1>2, <1>4, SeekDelivers
<1>6. QED
  BY <1>2, <1>5, FinishRefines DEF sum, call

\* Going back over the buffer is not seen, or it fails as the whole seek.
LEMMA SeekBackRefines ==
  ASSUME BufferInv, BufferInv', NEW origin \in Origins, NEW offset \in Offsets(origin),
         SeekBack(SeekCall(offset, origin))
  PROVE  Known!Next \/ UNCHANGED Known!vars
<1>. USE StreamAssumption
<1>1. /\ Inv /\ Seek(SeekCall(-rem, "current")) /\ Position - rem \in 0 .. MaxOffset
      /\ -rem \in Offsets("current") /\ "current" \in Origins
      /\ SeekBase("current", Position, Length) + (-rem) = Position - rem
  BY BackIsOffset DEF SeekBack, BufferInv
<1>2. (ret'.ok /\ Position' = Position - rem) \/ (~ret'.ok /\ Faulty)
  <2>. DEFINE back == -rem
  <2>1. /\ back \in Offsets("current") /\ Seek(SeekCall(back, "current"))
        /\ SeekBase("current", Position, Length) + back = Position - rem
    BY <1>1
  <2>. HIDE DEF back
  <2>2. QED
    BY <1>1, <2>1, SeekDelivers
<1>3. CASE ret'.ok
  <2>1. rem' = 0 /\ answer' = answer /\ lost' = lost /\ Position' - rem' = Position - rem
    BY <1>1, <1>2, <1>3 DEF SeekBack
  <2>2. QED
    BY <2>1 DEF Known!vars, None
<1>4. CASE ~ret'.ok
  <2>1. answer' = Failure(SeekCall(offset, origin)) /\ lost' /\ Faulty
    BY <1>2, <1>4 DEF SeekBack, Failed
  <2>2. QED
    BY <2>1, AbstractSeekFails
<1>5. QED
  BY <1>3, <1>4

\* The second half of a seek gives the answer of the whole seek.
LEMMA SeekOnRefines ==
  ASSUME BufferInv, BufferInv', SeekOn
  PROVE  Known!Next
<1>. USE StreamAssumption
<1>1. "current" \in Origins /\ pending \in Offsets("current") /\ Inv /\ rem = 0 /\ answer' \in Answers
  BY DEF Origins, BufferInv, SeekOn
<1>2. Seek(SeekCall(pending, "current")) /\ Finish(SeekCall(pending, "current"))
  BY DEF SeekOn
<1>3. Position \in 0 .. MaxOffset
  BY PositionTyped DEF BufferInv, Inv
<1>. DEFINE sum == SeekBase("current", Position - rem, Length) + pending
<1>4. SeekBase("current", Position, Length) + pending = sum
  BY <1>1, <1>3 DEF SeekBase
<1>. HIDE DEF sum
<1>5. \/ ret'.ok /\ ret'.from = sum /\ Position' = sum /\ sum \in 0 .. MaxOffset
      \/ ~ret'.ok /\ (Faulty \/ sum \notin 0 .. MaxOffset)
  BY <1>1, <1>2, <1>4, SeekDelivers
<1>6. QED
  BY <1>1, <1>2, <1>5, FinishRefines DEF sum

\* stream_position is a seek by nothing, answered with las-rs's position.
LEMMA StreamPositionRefines ==
  ASSUME BufferInv, BufferInv', StreamPosition
  PROVE  Known!Next
<1>. USE StreamAssumption
<1>1. "current" \in Origins /\ 0 \in Offsets("current") /\ Inv /\ answer' \in Answers
  BY DEF Origins, BufferInv, Offsets
<1>2. Seek(SeekCall(0, "current")) /\ rem' = rem
  BY DEF StreamPosition
<1>3. /\ Position \in 0 .. MaxOffset /\ SeekBase("current", Position, Length) + 0 = Position
      /\ Position - rem \in 0 .. MaxOffset
      /\ Position - rem = SeekBase("current", Position - rem, Length) + 0
  BY PositionTyped, BackIsOffset DEF BufferInv, Inv, SeekBase
<1>4. \/ ret'.ok /\ ret'.from = Position /\ Position' = Position
      \/ ~ret'.ok /\ Faulty
  BY <1>1, <1>2, <1>3, SeekDelivers
<1>5. CASE ret'.ok
  <2>1. answer' = Answer(SeekCall(0, "current"), Position - rem, 0) /\ lost' = lost
        /\ Position' - rem' = Position - rem
    BY <1>2, <1>4, <1>5 DEF StreamPosition
  <2>2. CASE lost
    BY <1>1, <2>1, <2>2, AbstractAstray DEF Answer
  <2>3. CASE ~lost
    BY <1>1, <1>3, <2>1, <2>3, AbstractSeek
  <2>4. QED
    BY <2>2, <2>3
<1>6. CASE ~ret'.ok
  <2>1. answer' = Failure(SeekCall(0, "current")) /\ lost' /\ Faulty
    BY <1>4, <1>6 DEF StreamPosition, Failed
  <2>2. QED
    BY <1>1, <2>1, AbstractSeekFails
<1>7. QED
  BY <1>5, <1>6

\* Through the BufReader las-rs has a file that recovers from failures, for
\* every buffer capacity and every sequence of reads, seeks and position
\* queries, the seek in two steps included.
THEOREM BufferedRefinement == BufferedSpec => ImplementsRecoverableFile
<1>1. BufferedInit => Known!Init
  <2>. SUFFICES ASSUME BufferedInit PROVE Known!Init
    OBVIOUS
  <2>1. Position = 0 /\ rem = 0 /\ ~lost
    BY StartAssumption DEF BufferedInit, Init, Position
  <2>2. answer = Answer(ReadCall(0), 0, 0)
    BY DEF BufferedInit, Init, NoCall
  <2>3. QED
    BY <2>1, <2>2, KnownCalls DEF Known!Init, Known!NoCall
<1>2. BufferInv /\ BufferInv' /\ [BufferedNext]_allVars => [Known!Next]_(Known!vars)
  <2>. SUFFICES ASSUME BufferInv, BufferInv', [BufferedNext]_allVars
       PROVE  Known!Next \/ UNCHANGED Known!vars
    OBVIOUS
  <2>1. CASE UNCHANGED allVars
    BY <2>1 DEF allVars, vars, Known!vars, Position, None
  <2>2. CASE \E len \in 0 .. MaxRead : BufferedRead(len)
    BY <2>2, BufferedReadRefines
  <2>3. CASE \E origin \in Origins : \E offset \in Offsets(origin) :
               BufferedSeek(SeekCall(offset, origin)) \/ SeekBack(SeekCall(offset, origin))
    BY <2>3, BufferedSeekRefines, SeekBackRefines
  <2>4. CASE SeekOn
    BY <2>4, SeekOnRefines
  <2>5. CASE StreamPosition
    BY <2>5, StreamPositionRefines
  <2>6. QED
    BY <2>1, <2>2, <2>3, <2>4, <2>5 DEF BufferedNext
<1>3. QED
  BY BufferInvariance, <1>1, <1>2, PTL DEF BufferedSpec, ImplementsRecoverableFile, Known!Spec

\* Under the buffer the adapter sees only calls las-rs could make itself, so
\* what is proved of it alone holds of it there.
THEOREM AdapterUnderBuffer == BufferedSpec => Spec
<1>1. BufferedInit => Init
  BY DEF BufferedInit
<1>2. BufferInv /\ [BufferedNext]_allVars => [Next]_vars
  <2>. SUFFICES ASSUME BufferInv, BufferedNext, vars' # vars PROVE Next
    BY DEF allVars
  <2>1. CASE \E len \in 0 .. MaxRead : BufferedRead(len)
    BY <2>1, CapacityAssumption DEF BufferedRead, FromBuffer, Bypass, Fill, Next
  <2>2. CASE \E origin \in Origins : \E offset \in Offsets(origin) : BufferedSeek(SeekCall(offset, origin))
    BY <2>2 DEF BufferedSeek, SeekCall, Next
  <2>3. CASE \E origin \in Origins : \E offset \in Offsets(origin) : SeekBack(SeekCall(offset, origin))
    BY <2>3, BackIsOffset DEF SeekBack, Next
  <2>4. CASE SeekOn
    BY <2>4 DEF SeekOn, BufferInv, Origins, Next
  <2>5. CASE StreamPosition
    BY <2>5, StreamAssumption DEF StreamPosition, Offsets, Origins, Next
  <2>6. QED
    BY <2>1, <2>2, <2>3, <2>4, <2>5 DEF BufferedNext
<1>3. QED
  BY BufferInvariance, <1>1, <1>2, PTL DEF BufferedSpec, Spec
=============================================================================
