---------------------------- MODULE WriterProofs ----------------------------
(***************************************************************************)
(* Proofs about the output side: the adapter under any calls               *)
(* (OutputStream), and the writer with the BufWriter and the adapter below *)
(* it (WriterSession), for every capacity, every device and every way the  *)
(* stream buffer may fail.                                                 *)
(***************************************************************************)
EXTENDS WriterSession, OutputStream, TLAPS

-----------------------------------------------------------------------------
(* The stream buffer *)

\* The adapter never lets the put position get before Start or past the end.
DeviceOK(d) ==
  /\ d \in [content : Seq(Int), put : Nat, room : Nat]
  /\ Start <= d.put /\ d.put <= Len(d.content)

\* e is d once the given bytes were stored at its put position.
Appended(d, bytes, e) ==
  /\ DeviceOK(e)
  /\ e.put = d.put + Len(bytes)
  /\ e.room = d.room
  /\ Len(e.content) = IF e.put > Len(d.content) THEN e.put ELSE Len(d.content)
  /\ \A k \in 1 .. Len(e.content) :
       e.content[k] = IF k \in d.put + 1 .. e.put THEN bytes[k - d.put] ELSE d.content[k]

\* Storing all of the bytes appends them at the put position.
LEMMA StoredAppends ==
  ASSUME NEW d, DeviceOK(d), NEW bytes \in Seq(Int)
  PROVE  Appended(d, bytes, Stored(d, bytes))
<1>1. PICK content \in Seq(Int), put \in Nat, room \in Nat :
        d = [content |-> content, put |-> put, room |-> room]
  BY DEF DeviceOK
<1>2. d.content = content /\ d.put = put /\ d.room = room /\ Start <= put /\ put <= Len(content)
  BY <1>1 DEF DeviceOK
<1>3. PICK new \in Nat : new = put + Len(bytes)
  OBVIOUS
<1>4. PICK size \in Nat : size = IF new > Len(content) THEN new ELSE Len(content)
  OBVIOUS
<1> DEFINE after == [k \in 1 .. size |-> IF k \in put + 1 .. new THEN bytes[k - put] ELSE content[k]]
<1>5. Stored(d, bytes) = [content |-> after, put |-> new, room |-> room]
  <2>1. Stored(d, bytes) = [d EXCEPT !.put = new, !.content = after]
    BY <1>2, <1>3, <1>4, Zenon DEF Stored
  <2> HIDE DEF after
  <2> QED  BY <1>1, <2>1
<1>6. ASSUME NEW k \in 1 .. size
      PROVE  (IF k \in put + 1 .. new THEN bytes[k - put] ELSE content[k]) \in Int
  <2>1. CASE k \in put + 1 .. new
    <3>1. k - put \in 1 .. Len(bytes)
      BY <1>3, <2>1
    <3> QED  BY <2>1, <3>1
  <2>2. CASE k \notin put + 1 .. new
    <3>1. k \in 1 .. Len(content)
      BY <1>2, <1>3, <1>4, <2>2
    <3> QED  BY <2>2, <3>1
  <2> QED  BY <2>1, <2>2
<1>7. after \in Seq(Int) /\ Len(after) = size
  <2>1. after \in [1 .. size -> Int]
    BY <1>6
  <2> HIDE DEF after
  <2> QED  BY <2>1
<1>8. \A k \in 1 .. size : after[k] = IF k \in put + 1 .. new THEN bytes[k - put] ELSE content[k]
  OBVIOUS
<1> HIDE DEF after
<1>9. DeviceOK(Stored(d, bytes))
  <2>1. Start <= new /\ new <= size
    BY <1>2, <1>3, <1>4, OutputAssumption
  <2> QED  BY <1>5, <1>7, <2>1 DEF DeviceOK
<1> QED  BY <1>2, <1>3, <1>4, <1>5, <1>7, <1>8, <1>9 DEF Appended

\* Whatever sputn does, it stores a prefix of its bytes, all of them when it
\* says so, and only where the device has room.
LEMMA SputnStoresPrefix ==
  ASSUME NEW d, DeviceOK(d), NEW bytes \in Seq(Int), NEW o \in Sputn(d, bytes)
  PROVE  \E k \in 0 .. Len(bytes) :
           /\ o.dev = Stored(d, SubSeq(bytes, 1, k))
           /\ o.ok \in BOOLEAN /\ (o.ok => k = Len(bytes))
           /\ k > 0 => d.put + k <= d.room
<1>1. d.put \in Nat /\ d.room \in Nat
  BY DEF DeviceOK
<1>2. PICK room \in Nat : room = IF d.put < d.room THEN d.room - d.put ELSE 0
  BY <1>1
<1>3. PICK fits \in 0 .. Len(bytes) : fits = IF Len(bytes) < room THEN Len(bytes) ELSE room
  BY <1>2
<1>4. \A k \in 0 .. fits : k > 0 => d.put + k <= d.room
  BY <1>1, <1>2, <1>3
<1>5. \/ o = [dev |-> Stored(d, SubSeq(bytes, 1, fits)), ok |-> (fits = Len(bytes))]
      \/ \E k \in 0 .. fits : o = [dev |-> Stored(d, SubSeq(bytes, 1, k)), ok |-> FALSE]
  BY <1>2, <1>3 DEF Sputn
<1>6. CASE o = [dev |-> Stored(d, SubSeq(bytes, 1, fits)), ok |-> (fits = Len(bytes))]
  <2>1. o.dev = Stored(d, SubSeq(bytes, 1, fits)) /\ o.ok \in BOOLEAN /\ (o.ok => fits = Len(bytes))
    BY <1>6
  <2> QED  BY <1>3, <1>4, <2>1
<1>7. ASSUME NEW k \in 0 .. fits, o = [dev |-> Stored(d, SubSeq(bytes, 1, k)), ok |-> FALSE]
      PROVE  \E j \in 0 .. Len(bytes) :
               /\ o.dev = Stored(d, SubSeq(bytes, 1, j))
               /\ o.ok \in BOOLEAN /\ (o.ok => j = Len(bytes))
               /\ j > 0 => d.put + j <= d.room
  <2>1. o.dev = Stored(d, SubSeq(bytes, 1, k)) /\ o.ok = FALSE /\ k \in 0 .. Len(bytes)
    BY <1>3, <1>7
  <2> QED  BY <1>4, <2>1
<1> QED  BY <1>5, <1>6, <1>7

\* A write callback that succeeds has stored its bytes.
LEMMA WriteStores ==
  ASSUME NEW d, DeviceOK(d), NEW bytes \in Seq(Int), NEW o \in WriteCall(d, bytes), o.ok
  PROVE  Appended(d, bytes, o.dev)
<1>1. PICK s \in Sputn(d, bytes) : o = Outcome(s.dev, s.ok, 0)
  BY DEF WriteCall
<1>2. o.dev = s.dev /\ s.ok
  BY <1>1 DEF Outcome
<1>3. s.dev = Stored(d, SubSeq(bytes, 1, Len(bytes)))
  BY <1>2, SputnStoresPrefix
<1>4. SubSeq(bytes, 1, Len(bytes)) = bytes
  OBVIOUS
<1> QED  BY <1>2, <1>3, <1>4, StoredAppends

\* Where a seek by nothing leaves the put position.
MovedTo(put, origin, current, end) ==
  /\ origin = "start" => put = Start
  /\ origin = "current" => put = current
  /\ origin = "end" => put = end

\* Seeks by nothing, the only ones las-rs makes here, fail or move the put
\* position only: to where the adapter started, nowhere, or to the end.
LEMMA SeekByNothing ==
  ASSUME NEW d, DeviceOK(d), NEW origin \in Origins, NEW o \in SeekCall(d, 0, origin)
  PROVE  \/ o = Failed(d) \/ o = Failed(AtEnd(d))
         \/ \E put \in Start .. Len(d.content), position \in Nat :
              /\ MovedTo(put, origin, d.put, Len(d.content))
              /\ o = Outcome([d EXCEPT !.put = put], TRUE, position)
<1>1. PICK put \in Nat, n \in Nat : put = d.put /\ n = Len(d.content) /\ Start <= put /\ put <= n
  BY DEF DeviceOK
<1>2. Start \in Nat /\ MaxOffset \in Nat
  BY OutputAssumption, MaxOffsetAssumption
<1>3. PICK last \in Nat, at \in Nat : last = n - Start /\ at = put - Start
  <2>1. n - Start \in Nat /\ put - Start \in Nat
    BY <1>1, <1>2
  <2> QED  BY <2>1, Zenon
<1>4. PICK target \in 0 .. last : target = SeekBase(origin, at, last)
  <2>1. at \in 0 .. last /\ last \in 0 .. last /\ 0 \in 0 .. last
    BY <1>1, <1>2, <1>3
  <2> QED  BY <2>1 DEF SeekBase
<1>5. SeekTarget(0, origin, at, last) = target
  BY <1>4 DEF SeekTarget
<1>6. target # None /\ ~(target > last) /\ ~(0 > MaxOffset)
  BY <1>2, <1>4 DEF None
<1>7. SeekCall(d, 0, origin) =
        (IF Faulty THEN {Failed(d), Failed(AtEnd(d))} ELSE {})
          \cup {Outcome([d EXCEPT !.put = Start + target], TRUE, target)}
  BY <1>1, <1>3, <1>5, <1>6, Zenon DEF SeekCall
<1>8. Start + target \in Start .. n /\ target \in Nat
  BY <1>1, <1>2, <1>3, <1>4
<1>9. MovedTo(Start + target, origin, put, n)
  BY <1>1, <1>2, <1>3, <1>4 DEF SeekBase, MovedTo
<1>10. o \in {Failed(d), Failed(AtEnd(d))} \/ o = Outcome([d EXCEPT !.put = Start + target], TRUE, target)
  BY <1>7
<1> QED  BY <1>1, <1>8, <1>9, <1>10

\* A seek by nothing that succeeds changes no byte.
LEMMA SeekMoves ==
  ASSUME NEW d, DeviceOK(d), NEW origin \in Origins, NEW o \in SeekCall(d, 0, origin), o.ok
  PROVE  /\ DeviceOK(o.dev)
         /\ o.dev.content = d.content
         /\ MovedTo(o.dev.put, origin, d.put, Len(d.content))
<1>1. o # Failed(d) /\ o # Failed(AtEnd(d))
  BY DEF Failed, Outcome
<1>2. PICK put \in Start .. Len(d.content), position \in Nat :
        /\ MovedTo(put, origin, d.put, Len(d.content))
        /\ o = Outcome([d EXCEPT !.put = put], TRUE, position)
  BY <1>1, SeekByNothing
<1>3. o.dev = [d EXCEPT !.put = put]
  BY <1>2 DEF Outcome
<1>4. put \in Nat /\ Start <= put /\ put <= Len(d.content)
  BY OutputAssumption DEF DeviceOK
<1> QED  BY <1>2, <1>3, <1>4 DEF DeviceOK

-----------------------------------------------------------------------------
(* The BufWriter *)

\* Flushing what fits: success means that it is stored and the buffer empty.
LEMMA FlushStores ==
  ASSUME NEW d, DeviceOK(d), NEW b \in Seq(Int), NEW o \in FlushBuf(d, b), o.ok
  PROVE  Appended(d, b, o.dev) /\ o.buf = <<>>
<1>1. CASE b = <<>>
  <2>1. o.dev = d /\ o.buf = <<>>
    BY <1>1 DEF FlushBuf, Result
  <2>2. Appended(d, b, d)
    BY <1>1 DEF Appended, DeviceOK
  <2> QED  BY <2>1, <2>2
<1>2. CASE b # <<>>
  <2>1. PICK w \in WriteCall(d, b) : o = Result(w.dev, IF w.ok THEN <<>> ELSE b, w.ok)
    BY <1>2 DEF FlushBuf
  <2>2. o.dev = w.dev /\ w.ok /\ o.buf = <<>>
    BY <2>1 DEF Result
  <2> QED  BY <2>2, WriteStores
<1> QED  BY <1>1, <1>2

\* A seek of the BufWriter flushes it first.
LEMMA BufSeekMoves ==
  ASSUME NEW d, DeviceOK(d), NEW b \in Seq(Int), NEW origin \in Origins,
         NEW o \in BufSeek(d, b, 0, origin), o.ok
  PROVE  /\ o.buf = <<>>
         /\ \E e : /\ Appended(d, b, e)
                   /\ DeviceOK(o.dev) /\ o.dev.content = e.content
                   /\ MovedTo(o.dev.put, origin, e.put, Len(e.content))
<1> DEFINE inner(d2, b2) == {Result(s.dev, b2, s.ok) : s \in SeekCall(d2, 0, origin)}
<1>1. PICK f \in FlushBuf(d, b) : f.ok /\ o \in inner(f.dev, f.buf)
  BY DEF BufSeek, AndThen
<1>2. Appended(d, b, f.dev) /\ f.buf = <<>>
  BY <1>1, FlushStores
<1>3. PICK s \in SeekCall(f.dev, 0, origin) : o = Result(s.dev, f.buf, s.ok)
  BY <1>1
<1>4. o.dev = s.dev /\ o.buf = <<>> /\ s.ok
  BY <1>2, <1>3 DEF Result
<1>5. DeviceOK(f.dev)
  BY <1>2 DEF Appended
<1>6. /\ DeviceOK(s.dev) /\ s.dev.content = f.dev.content
      /\ MovedTo(s.dev.put, origin, f.dev.put, Len(f.dev.content))
  BY <1>4, <1>5, SeekMoves
<1> QED  BY <1>2, <1>4, <1>6

\* The content of the stream from Start up to the put position, and the buffer
\* behind it, hold exactly the bytes s.
Held(content, put, b, s) ==
  /\ put + Len(b) = Start + Len(s)
  /\ \A k \in Start + 1 .. put : content[k] = s[k - Start]
  /\ \A i \in 1 .. Len(b) : b[i] = s[put - Start + i]

Written(d, b, s) ==
  DeviceOK(d) /\ b \in Seq(Int) /\ s \in Seq(Int) /\ Held(d.content, d.put, b, s)

\* Once the buffer is stored, the stream alone holds them.
LEMMA WrittenFlushed ==
  ASSUME NEW d, NEW b, NEW s, NEW e, Written(d, b, s), Appended(d, b, e)
  PROVE  Written(e, <<>>, s)
<1>1. PICK content \in Seq(Int), put \in Nat, after \in Seq(Int), new \in Nat :
        content = d.content /\ put = d.put /\ after = e.content /\ new = e.put
  BY DEF Written, Appended, DeviceOK
<1>2. DeviceOK(e) /\ b \in Seq(Int) /\ s \in Seq(Int) /\ Len(b) \in Nat /\ Len(s) \in Nat /\ Start \in Nat
  BY OutputAssumption DEF Written, Appended
<1>3. Start <= put /\ new = put + Len(b) /\ new <= Len(after)
  BY <1>1 DEF Written, Appended, DeviceOK
<1>4. \A k \in 1 .. Len(after) : after[k] = IF k \in put + 1 .. new THEN b[k - put] ELSE content[k]
  BY <1>1 DEF Appended
<1>5. Held(content, put, b, s)
  BY <1>1 DEF Written
<1>6. ASSUME NEW k \in Start + 1 .. new
      PROVE  after[k] = s[k - Start]
  <2>1. k \in 1 .. Len(after)
    BY <1>2, <1>3
  <2>2. CASE k <= put
    <3>1. k \notin put + 1 .. new /\ k \in Start + 1 .. put
      BY <2>2
    <3>2. after[k] = content[k]
      BY <1>4, <2>1, <3>1
    <3>3. content[k] = s[k - Start]
      BY <1>5, <3>1 DEF Held
    <3> QED  BY <3>2, <3>3
  <2>3. CASE ~(k <= put)
    <3>1. k \in put + 1 .. new
      BY <1>2, <2>3
    <3>2. PICK i \in 1 .. Len(b) : i = k - put
      BY <1>2, <1>3, <2>3
    <3>3. b[i] = s[put - Start + i]
      BY <1>5 DEF Held
    <3>4. put - Start + i = k - Start
      BY <1>2, <3>2
    <3> QED  BY <1>4, <2>1, <3>1, <3>2, <3>3, <3>4
  <2> QED  BY <2>2, <2>3
<1>7. new + 0 = Start + Len(s)
  BY <1>3, <1>5 DEF Held
<1>8. <<>> \in Seq(Int) /\ Len(<<>>) = 0
  OBVIOUS
<1>9. Held(after, new, <<>>, s)
  BY <1>6, <1>7, <1>8 DEF Held
<1> QED  BY <1>1, <1>2, <1>8, <1>9 DEF Written

\* A byte that goes into the buffer.
LEMMA WrittenBuffered ==
  ASSUME NEW d, NEW b, NEW s, NEW x \in Int, Written(d, b, s)
  PROVE  Written(d, b \o <<x>>, Append(s, x))
<1>1. PICK content \in Seq(Int), put \in Nat : content = d.content /\ put = d.put
  BY DEF Written, DeviceOK
<1>2. b \in Seq(Int) /\ s \in Seq(Int) /\ Len(b) \in Nat /\ Len(s) \in Nat /\ Start \in Nat
  BY OutputAssumption DEF Written
<1>3. Start <= put /\ DeviceOK(d)
  BY <1>1 DEF Written, DeviceOK
<1>4. Held(content, put, b, s)
  BY <1>1 DEF Written
<1>5. <<x>> \in Seq(Int) /\ Len(<<x>>) = 1 /\ <<x>>[1] = x
  OBVIOUS
<1>6. PICK c \in Seq(Int) : c = b \o <<x>>
  <2>1. b \o <<x>> \in Seq(Int)
    BY <1>2, <1>5
  <2> QED  BY <2>1
<1>7. Len(c) = Len(b) + 1 /\ (\A i \in 1 .. Len(b) : c[i] = b[i]) /\ c[Len(b) + 1] = x
  BY <1>2, <1>5, <1>6
<1>8. PICK t \in Seq(Int) : t = Append(s, x)
  <2>1. Append(s, x) \in Seq(Int)
    BY <1>2
  <2> QED  BY <2>1
<1>9. Len(t) = Len(s) + 1 /\ (\A i \in 1 .. Len(s) : t[i] = s[i]) /\ t[Len(s) + 1] = x
  BY <1>2, <1>8
<1>10. put + Len(b) = Start + Len(s)
  BY <1>4 DEF Held
<1>11. put + Len(c) = Start + Len(t)
  <2>1. Len(c) = Len(b) + 1 /\ Len(t) = Len(s) + 1
    BY <1>7, <1>9
  <2> QED  BY <1>2, <1>10, <2>1
<1>12. ASSUME NEW k \in Start + 1 .. put
       PROVE  content[k] = t[k - Start]
  <2>1. content[k] = s[k - Start]
    BY <1>4 DEF Held
  <2>2. k - Start \in 1 .. Len(s)
    BY <1>2, <1>10
  <2> QED  BY <1>9, <2>1, <2>2
<1>13. ASSUME NEW i \in 1 .. Len(c)
       PROVE  c[i] = t[put - Start + i]
  <2>1. Len(c) = Len(b) + 1
    BY <1>7
  <2>2. CASE i = Len(b) + 1
    <3>1. put - Start + i = Len(s) + 1
      BY <1>2, <1>10, <2>2
    <3> QED  BY <1>7, <1>9, <2>2, <3>1
  <2>3. CASE i # Len(b) + 1
    <3>1. i \in 1 .. Len(b)
      BY <1>2, <2>1, <2>3
    <3>2. b[i] = s[put - Start + i]
      BY <1>4, <3>1 DEF Held
    <3>3. put - Start + i \in 1 .. Len(s)
      BY <1>2, <1>3, <1>10, <3>1
    <3> QED  BY <1>7, <1>9, <3>1, <3>2, <3>3
  <2> QED  BY <2>2, <2>3
<1>14. Held(content, put, c, t)
  BY <1>11, <1>12, <1>13 DEF Held
<1> QED  BY <1>1, <1>3, <1>6, <1>8, <1>14 DEF Written

\* A byte through the BufWriter: it is buffered, or the buffer is flushed before
\* it, or it goes around a buffer that is empty.
LEMMA BufWriteAppends ==
  ASSUME NEW d, NEW b, NEW s, NEW x \in Int, Written(d, b, s),
         NEW o \in BufWrite(d, b, <<x>>), o.ok
  PROVE  Written(o.dev, o.buf, Append(s, x))
<1> DEFINE put(d2, b2) == IF Len(<<x>>) >= Capacity
                          THEN {Result(w.dev, b2, w.ok) : w \in WriteCall(d2, <<x>>)}
                          ELSE {Result(d2, b2 \o <<x>>, TRUE)}
<1>1. <<x>> \in Seq(Int) /\ Len(<<x>>) = 1
  OBVIOUS
<1>2. b \in Seq(Int) /\ DeviceOK(d) /\ Len(b) \in Nat
  BY DEF Written
<1>3. ASSUME NEW d2, NEW b2, Written(d2, b2, s), o \in put(d2, b2), Capacity = 1 => b2 = <<>>
      PROVE  Written(o.dev, o.buf, Append(s, x))
  <2>1. CASE Capacity = 1
    <3>1. PICK w \in WriteCall(d2, <<x>>) : o = Result(w.dev, b2, w.ok)
      BY <1>1, <1>3, <2>1
    <3>2. o.dev = w.dev /\ o.buf = <<>> /\ w.ok
      BY <1>3, <2>1, <3>1 DEF Result
    <3>3. Appended(d2, <<x>>, o.dev)
      BY <1>1, <1>3, <3>2, WriteStores DEF Written
    <3>4. Written(d2, b2 \o <<x>>, Append(s, x))
      BY <1>3, WrittenBuffered
    <3>5. <<>> \o <<x>> = <<x>>
      OBVIOUS
    <3>6. b2 \o <<x>> = <<x>>
      BY <1>3, <2>1, <3>5
    <3> QED  BY <3>2, <3>3, <3>4, <3>6, WrittenFlushed
  <2>2. CASE Capacity # 1
    <3>1. ~(Len(<<x>>) >= Capacity)
      BY <1>1, <2>2, WriterAssumption
    <3>2. o = Result(d2, b2 \o <<x>>, TRUE)
      BY <1>3, <3>1
    <3>3. o.dev = d2 /\ o.buf = b2 \o <<x>>
      BY <3>2 DEF Result
    <3> QED  BY <1>3, <3>3, WrittenBuffered
  <2> QED  BY <2>1, <2>2
<1>4. CASE Len(<<x>>) > Capacity - Len(b)
  <2>1. PICK f \in FlushBuf(d, b) : f.ok /\ o \in put(f.dev, f.buf)
    BY <1>4 DEF BufWrite, AndThen
  <2>2. Appended(d, b, f.dev) /\ f.buf = <<>>
    BY <1>2, <2>1, FlushStores
  <2> QED  BY <1>3, <2>1, <2>2, WrittenFlushed
<1>5. CASE ~(Len(<<x>>) > Capacity - Len(b))
  <2>1. o \in put(d, b)
    BY <1>5 DEF BufWrite
  <2>2. Capacity = 1 => Len(b) = 0
    BY <1>1, <1>2, <1>5
  <2>3. Capacity = 1 => b = <<>>
    BY <1>2, <2>2
  <2> QED  BY <1>3, <2>1, <2>3
<1> QED  BY <1>4, <1>5

-----------------------------------------------------------------------------
(* las-rs *)

\* The bytes of a file: a header that counts n points, and points.
FileOf(n, ps) == <<HeaderOf(n)>> \o ps

\* The stream holds the bytes s from Start on, whatever comes after them.
OnDevice(d, s) ==
  /\ DeviceOK(d)
  /\ Start + Len(s) <= Len(d.content)
  /\ \A k \in Start + 1 .. Start + Len(s) : d.content[k] = s[k - Start]

\* The file is a sequence of bytes: a header and a byte a point.
LEMMA FileBytes ==
  ASSUME NEW n \in Nat, NEW ps \in Seq(Int)
  PROVE  /\ HeaderOf(n) \in Int
         /\ FileOf(n, ps) \in Seq(Int)
         /\ Len(FileOf(n, ps)) = 1 + Len(ps)
         /\ \A i \in 1 .. 1 + Len(ps) : FileOf(n, ps)[i] = IF i = 1 THEN HeaderOf(n) ELSE ps[i - 1]
<1>1. HeaderOf(n) \in Int
  BY DEF HeaderOf
<1>2. PICK h \in Int : h = HeaderOf(n)
  BY <1>1
<1>3. <<h>> \in Seq(Int) /\ Len(<<h>>) = 1 /\ <<h>>[1] = h
  OBVIOUS
<1>4. PICK f \in Seq(Int) : f = <<h>> \o ps
  <2>1. <<h>> \o ps \in Seq(Int)
    BY <1>3
  <2> QED  BY <2>1
<1>5. Len(f) = 1 + Len(ps)
  BY <1>3, <1>4
<1>6. \A i \in 1 .. 1 + Len(ps) : f[i] = IF i = 1 THEN h ELSE ps[i - 1]
  BY <1>3, <1>4
<1>7. FileOf(n, ps) = f
  BY <1>2, <1>4 DEF FileOf
<1> QED  BY <1>1, <1>2, <1>5, <1>6, <1>7

\* The constructor leaves a header that counts no points in the BufWriter or
\* below it.
LEMMA LasNewWrites ==
  ASSUME NEW d, DeviceOK(d), d.put = Start, NEW o \in LasNew(d), o.ok
  PROVE  Written(o.dev, o.buf, FileOf(0, <<>>))
<1>1. <<>> \in Seq(Int) /\ Len(<<>>) = 0 /\ Start \in Nat /\ "current" \in Origins /\ 0 \in Nat
  BY OutputAssumption DEF Origins
<1>2. PICK p \in BufSeek(d, <<>>, 0, "current") : p.ok /\ o \in BufWrite(p.dev, p.buf, <<HeaderOf(0)>>)
  BY DEF LasNew, AndThen
<1>3. PICK e : /\ Appended(d, <<>>, e) /\ DeviceOK(p.dev) /\ p.dev.content = e.content
               /\ MovedTo(p.dev.put, "current", e.put, Len(e.content))
  <2>1. PICK origin \in Origins, b \in Seq(Int) : origin = "current" /\ b = <<>>
    BY <1>1
  <2>2. p \in BufSeek(d, b, 0, origin) /\ p.ok
    BY <1>2, <2>1
  <2>3. PICK e : /\ Appended(d, b, e) /\ DeviceOK(p.dev) /\ p.dev.content = e.content
                 /\ MovedTo(p.dev.put, origin, e.put, Len(e.content))
    BY <2>2, BufSeekMoves
  <2> QED  BY <2>1, <2>3
<1>4. p.buf = <<>>
  BY <1>1, <1>2, BufSeekMoves
<1>5. p.dev.put = Start
  BY <1>1, <1>3 DEF MovedTo, Appended
<1>6. Held(p.dev.content, p.dev.put, <<>>, <<>>)
  <2>1. Start + 1 .. Start = {}
    BY <1>1
  <2>2. Start + 0 = Start + 0
    OBVIOUS
  <2> QED  BY <1>1, <1>5, <2>1, <2>2 DEF Held
<1>7. Written(p.dev, p.buf, <<>>)
  BY <1>1, <1>3, <1>4, <1>6 DEF Written
<1>8. PICK h \in Int : h = HeaderOf(0)
  BY <1>1, FileBytes
<1>9. Written(o.dev, o.buf, Append(<<>>, h))
  BY <1>2, <1>7, <1>8, BufWriteAppends
<1>10. Append(<<>>, h) = <<h>> \o <<>>
  OBVIOUS
<1> QED  BY <1>8, <1>9, <1>10 DEF FileOf

\* One byte given to an empty BufWriter is below it after a flush.
LEMMA EmptyBufWrite ==
  ASSUME NEW d, DeviceOK(d), NEW x \in Int, NEW o \in BufWrite(d, <<>>, <<x>>), o.ok
  PROVE  \/ o.dev = d /\ o.buf = <<x>>
         \/ Appended(d, <<x>>, o.dev) /\ o.buf = <<>>
<1> DEFINE put(d2, b2) == IF Len(<<x>>) >= Capacity
                          THEN {Result(w.dev, b2, w.ok) : w \in WriteCall(d2, <<x>>)}
                          ELSE {Result(d2, b2 \o <<x>>, TRUE)}
<1>1. <<x>> \in Seq(Int) /\ Len(<<x>>) = 1 /\ <<>> \o <<x>> = <<x>> /\ Len(<<>>) = 0
  OBVIOUS
<1>2. ~(Len(<<x>>) > Capacity - Len(<<>>))
  BY <1>1, WriterAssumption
<1>3. o \in put(d, <<>>)
  BY <1>2 DEF BufWrite
<1>4. CASE Len(<<x>>) >= Capacity
  <2>1. PICK w \in WriteCall(d, <<x>>) : o = Result(w.dev, <<>>, w.ok)
    BY <1>3, <1>4
  <2>2. o.dev = w.dev /\ o.buf = <<>> /\ w.ok
    BY <2>1 DEF Result
  <2> QED  BY <1>1, <2>2, WriteStores
<1>5. CASE ~(Len(<<x>>) >= Capacity)
  <2>1. o = Result(d, <<x>>, TRUE)
    BY <1>1, <1>3, <1>5
  <2> QED  BY <2>1 DEF Result
<1> QED  BY <1>4, <1>5

\* A byte stored at Start replaces the header, and only that.
LEMMA HeaderReplaced ==
  ASSUME NEW d, NEW n \in Nat, NEW m \in Nat, NEW ps \in Seq(Int),
         OnDevice(d, FileOf(n, ps)), d.put = Start,
         NEW e, Appended(d, <<HeaderOf(m)>>, e)
  PROVE  OnDevice(e, FileOf(m, ps))
<1>1. PICK content \in Seq(Int), after \in Seq(Int), h \in Int :
        content = d.content /\ after = e.content /\ h = HeaderOf(m)
  BY FileBytes DEF OnDevice, Appended, DeviceOK
<1>2. <<h>> \in Seq(Int) /\ Len(<<h>>) = 1 /\ <<h>>[1] = h
  OBVIOUS
<1>3. Start \in Nat /\ Len(ps) \in Nat /\ Len(content) \in Nat
  BY OutputAssumption
<1>4. PICK old \in Seq(Int) : old = FileOf(n, ps)
  BY FileBytes
<1>5. PICK new \in Seq(Int) : new = FileOf(m, ps)
  BY FileBytes
<1>6. /\ Len(old) = 1 + Len(ps) /\ Len(new) = 1 + Len(ps)
      /\ \A i \in 1 .. 1 + Len(ps) : old[i] = IF i = 1 THEN HeaderOf(n) ELSE ps[i - 1]
      /\ \A i \in 1 .. 1 + Len(ps) : new[i] = IF i = 1 THEN h ELSE ps[i - 1]
  <2>1. Len(old) = 1 + Len(ps) /\ Len(new) = 1 + Len(ps)
    BY <1>4, <1>5, FileBytes
  <2>2. \A i \in 1 .. 1 + Len(ps) : old[i] = IF i = 1 THEN HeaderOf(n) ELSE ps[i - 1]
    BY <1>4, FileBytes, Zenon
  <2>3. \A i \in 1 .. 1 + Len(ps) : new[i] = IF i = 1 THEN h ELSE ps[i - 1]
    BY <1>1, <1>5, FileBytes, Zenon
  <2> QED  BY <2>1, <2>2, <2>3
<1>7. /\ Start + Len(old) <= Len(content)
      /\ \A k \in Start + 1 .. Start + Len(old) : content[k] = old[k - Start]
  BY <1>1, <1>4 DEF OnDevice
<1>8. e.put = Start + 1
  BY <1>1, <1>2 DEF Appended
<1>9. Len(after) = IF Start + 1 > Len(content) THEN Start + 1 ELSE Len(content)
  BY <1>1, <1>8 DEF Appended
<1>10. \A k \in 1 .. Len(after) : after[k] = IF k \in Start + 1 .. Start + 1 THEN <<h>>[k - Start] ELSE content[k]
  BY <1>1, <1>8 DEF Appended
<1>11. Len(after) = Len(content) /\ Start + 1 + Len(ps) <= Len(content)
  BY <1>3, <1>6, <1>7, <1>9
<1>12. ASSUME NEW k \in Start + 1 .. Start + 1 + Len(ps)
       PROVE  after[k] = new[k - Start]
  <2>1. k \in 1 .. Len(after) /\ k - Start \in 1 .. 1 + Len(ps)
    BY <1>3, <1>11
  <2>2. CASE k = Start + 1
    <3>1. k - Start = 1 /\ k \in Start + 1 .. Start + 1
      BY <1>3, <2>2
    <3> QED  BY <1>2, <1>6, <1>10, <2>1, <3>1
  <2>3. CASE k # Start + 1
    <3>1. k \notin Start + 1 .. Start + 1 /\ k - Start # 1
      BY <1>3, <2>3
    <3>2. after[k] = content[k]
      BY <1>10, <2>1, <3>1
    <3>3. content[k] = old[k - Start]
      BY <1>3, <1>6, <1>7
    <3>4. old[k - Start] = new[k - Start]
      BY <1>6, <2>1, <3>1
    <3> QED  BY <3>2, <3>3, <3>4
  <2> QED  BY <2>2, <2>3
<1>13. DeviceOK(e)
  BY DEF Appended
<1>14. /\ Start + Len(new) <= Len(after)
       /\ \A k \in Start + 1 .. Start + Len(new) : after[k] = new[k - Start]
  <2>1. Start + Len(new) = Start + 1 + Len(ps)
    BY <1>3, <1>6
  <2> QED  BY <1>11, <1>12, <2>1
<1> QED  BY <1>1, <1>5, <1>13, <1>14 DEF OnDevice

\* Appending nothing changes nothing that is on the device.
LEMMA NothingAppended ==
  ASSUME NEW d, NEW s \in Seq(Int), OnDevice(d, s), NEW e, Appended(d, <<>>, e)
  PROVE  OnDevice(e, s)
<1>1. PICK content \in Seq(Int), after \in Seq(Int), put \in Nat :
        content = d.content /\ after = e.content /\ put = d.put
  BY DEF OnDevice, Appended, DeviceOK
<1>2. Len(<<>>) = 0 /\ Start \in Nat /\ Len(s) \in Nat /\ Len(content) \in Nat
  BY OutputAssumption
<1>3. put <= Len(content) /\ e.put = put
  BY <1>1, <1>2 DEF OnDevice, Appended, DeviceOK
<1>4. Len(after) = IF put > Len(content) THEN put ELSE Len(content)
  BY <1>1, <1>3 DEF Appended
<1>5. \A k \in 1 .. Len(after) : after[k] = IF k \in put + 1 .. put THEN <<>>[k - put] ELSE content[k]
  BY <1>1, <1>3 DEF Appended
<1>6. Len(after) = Len(content)
  BY <1>2, <1>3, <1>4
<1>7. \A k \in 1 .. Len(after) : after[k] = content[k]
  BY <1>5
<1>8. Start + Len(s) <= Len(content) /\ \A k \in Start + 1 .. Start + Len(s) : content[k] = s[k - Start]
  BY <1>1 DEF OnDevice
<1>9. \A k \in Start + 1 .. Start + Len(s) : k \in 1 .. Len(after)
  BY <1>2, <1>6, <1>8
<1>10. DeviceOK(e)
  BY DEF Appended
<1> QED  BY <1>1, <1>6, <1>7, <1>8, <1>9, <1>10 DEF OnDevice

\* What is flushed is on the device, wherever the put position goes then.
LEMMA FlushedOnDevice ==
  ASSUME NEW d, NEW b, NEW s, Written(d, b, s), NEW e, Appended(d, b, e),
         NEW f, DeviceOK(f), f.content = e.content
  PROVE  OnDevice(f, s)
<1>1. Written(e, <<>>, s)
  BY WrittenFlushed
<1>2. PICK content \in Seq(Int), put \in Nat : content = e.content /\ put = e.put /\ put <= Len(content)
  BY <1>1 DEF Written, DeviceOK
<1>3. Held(content, put, <<>>, s) /\ s \in Seq(Int) /\ Len(<<>>) = 0 /\ Start \in Nat
  BY <1>1, <1>2, OutputAssumption DEF Written
<1>4. put = Start + Len(s)
  <2>1. put + 0 = Start + Len(s)
    BY <1>3 DEF Held
  <2> QED  BY <2>1
<1>5. \A k \in Start + 1 .. put : content[k] = s[k - Start]
  BY <1>3 DEF Held
<1> QED  BY <1>2, <1>4, <1>5 DEF OnDevice

\* Closing: the points are flushed, the header is replaced by the one that
\* counts them, and both are in the stream before close reports success.
LEMMA LasCloseStores ==
  ASSUME NEW d, NEW b, NEW m \in Nat, NEW n \in Nat, NEW ps \in Seq(Int),
         Written(d, b, FileOf(m, ps)), NEW o \in LasClose(d, b, n), o.ok
  PROVE  OnDevice(o.dev, FileOf(n, ps)) /\ o.buf = <<>>
<1>1. PICK start \in Origins, end \in Origins : start = "start" /\ end = "end"
  BY DEF Origins
<1>2. PICK h \in Int : h = HeaderOf(n)
  BY FileBytes
<1>3. PICK p \in BufSeek(d, b, 0, start) :
        /\ p.ok
        /\ \E q \in BufWrite(p.dev, p.buf, <<h>>) : q.ok /\ o \in BufSeek(q.dev, q.buf, 0, end)
  BY <1>1, <1>2 DEF LasClose, AndThen
<1>4. PICK q \in BufWrite(p.dev, p.buf, <<h>>) : q.ok /\ o \in BufSeek(q.dev, q.buf, 0, end)
  BY <1>3
<1>5. DeviceOK(d) /\ b \in Seq(Int)
  BY DEF Written
<1>6. p.buf = <<>>
  BY <1>3, <1>5, BufSeekMoves
<1>7. PICK e : /\ Appended(d, b, e) /\ DeviceOK(p.dev) /\ p.dev.content = e.content
               /\ MovedTo(p.dev.put, start, e.put, Len(e.content))
  BY <1>3, <1>5, BufSeekMoves
<1>8. p.dev.put = Start /\ OnDevice(p.dev, FileOf(m, ps))
  BY <1>1, <1>7, FlushedOnDevice DEF MovedTo
<1>9. \/ q.dev = p.dev /\ q.buf = <<h>>
      \/ Appended(p.dev, <<h>>, q.dev) /\ q.buf = <<>>
  BY <1>4, <1>6, <1>7, EmptyBufWrite
<1>10. <<h>> \in Seq(Int) /\ <<>> \in Seq(Int)
  OBVIOUS
<1>11. DeviceOK(q.dev) /\ q.buf \in Seq(Int)
  BY <1>7, <1>9, <1>10 DEF Appended
<1>12. o.buf = <<>>
  BY <1>4, <1>11, BufSeekMoves
<1>13. PICK f : /\ Appended(q.dev, q.buf, f) /\ DeviceOK(o.dev) /\ o.dev.content = f.content
                /\ MovedTo(o.dev.put, end, f.put, Len(f.content))
  BY <1>4, <1>11, BufSeekMoves
<1>14. OnDevice(f, FileOf(n, ps))
  <2>1. CASE q.dev = p.dev /\ q.buf = <<h>>
    BY <1>2, <1>8, <1>13, <2>1, HeaderReplaced
  <2>2. CASE Appended(p.dev, <<h>>, q.dev) /\ q.buf = <<>>
    <3>1. OnDevice(q.dev, FileOf(n, ps))
      BY <1>2, <1>8, <2>2, HeaderReplaced
    <3>2. FileOf(n, ps) \in Seq(Int)
      BY FileBytes
    <3> QED  BY <1>13, <2>2, <3>1, <3>2, NothingAppended
  <2> QED  BY <1>9, <2>1, <2>2
<1> QED  BY <1>12, <1>13, <1>14 DEF OnDevice

-----------------------------------------------------------------------------
(* Failures *)

\* Failing or not, nothing leaves the put position before Start or past the end.
LEMMA WriteKeepsDevice ==
  ASSUME NEW d, DeviceOK(d), NEW bytes \in Seq(Int), NEW o \in WriteCall(d, bytes)
  PROVE  DeviceOK(o.dev)
<1>1. PICK s \in Sputn(d, bytes) : o = Outcome(s.dev, s.ok, 0)
  BY DEF WriteCall
<1>2. PICK k \in 0 .. Len(bytes) : s.dev = Stored(d, SubSeq(bytes, 1, k))
  BY SputnStoresPrefix
<1>3. PICK t \in Seq(Int) : t = SubSeq(bytes, 1, k)
  <2>1. SubSeq(bytes, 1, k) \in Seq(Int)
    OBVIOUS
  <2> QED  BY <2>1
<1>4. o.dev = Stored(d, t)
  BY <1>1, <1>2, <1>3 DEF Outcome
<1>5. Appended(d, t, o.dev)
  BY <1>4, StoredAppends
<1> QED  BY <1>5 DEF Appended

\* Asking for the end moves the put position and nothing else.
LEMMA AtEndKeepsDevice ==
  ASSUME NEW d, DeviceOK(d)
  PROVE  /\ DeviceOK(AtEnd(d)) /\ AtEnd(d).content = d.content /\ AtEnd(d).put = Len(d.content)
         /\ AtEnd(d).room = d.room
BY OutputAssumption DEF DeviceOK, AtEnd

\* A seek by nothing leaves a device, failed or not.
LEMMA SeekKeepsDevice ==
  ASSUME NEW d, DeviceOK(d), NEW origin \in Origins, NEW o \in SeekCall(d, 0, origin)
  PROVE  DeviceOK(o.dev)
<1>1. CASE o = Failed(d) \/ o = Failed(AtEnd(d))
  <2>1. o.dev = d \/ o.dev = AtEnd(d)
    BY <1>1 DEF Failed, Outcome
  <2> QED  BY <2>1, AtEndKeepsDevice
<1>2. CASE o # Failed(d) /\ o # Failed(AtEnd(d))
  <2>1. o.ok
    BY <1>2, SeekByNothing DEF Outcome
  <2> QED  BY <2>1, SeekMoves
<1> QED  BY <1>1, <1>2

\* What holds of any outcome of the BufWriter and of las-rs.
Sound(o) == DeviceOK(o.dev) /\ o.buf \in Seq(Int)

\* A flush leaves a device and a buffer, failed or not.
LEMMA FlushSound ==
  ASSUME NEW d, DeviceOK(d), NEW b \in Seq(Int), NEW o \in FlushBuf(d, b)
  PROVE  Sound(o)
<1>1. CASE b = <<>>
  <2>1. o.dev = d /\ o.buf = b
    BY <1>1 DEF FlushBuf, Result
  <2> QED  BY <2>1 DEF Sound
<1>2. CASE b # <<>>
  <2>1. PICK w \in WriteCall(d, b) : o = Result(w.dev, IF w.ok THEN <<>> ELSE b, w.ok)
    BY <1>2 DEF FlushBuf
  <2>2. o.dev = w.dev /\ o.buf = IF w.ok THEN <<>> ELSE b
    BY <2>1 DEF Result
  <2>3. <<>> \in Seq(Int)
    OBVIOUS
  <2> QED  BY <2>2, <2>3, WriteKeepsDevice DEF Sound
<1> QED  BY <1>1, <1>2

\* So does a write to the BufWriter,
LEMMA BufWriteSound ==
  ASSUME NEW d, DeviceOK(d), NEW b \in Seq(Int), NEW x \in Int, NEW o \in BufWrite(d, b, <<x>>)
  PROVE  Sound(o)
<1> DEFINE put(d2, b2) == IF Len(<<x>>) >= Capacity
                          THEN {Result(w.dev, b2, w.ok) : w \in WriteCall(d2, <<x>>)}
                          ELSE {Result(d2, b2 \o <<x>>, TRUE)}
<1>1. <<x>> \in Seq(Int)
  OBVIOUS
<1>2. ASSUME NEW d2, DeviceOK(d2), NEW b2 \in Seq(Int), o \in put(d2, b2)
      PROVE  Sound(o)
  <2>1. CASE Len(<<x>>) >= Capacity
    <3>1. PICK w \in WriteCall(d2, <<x>>) : o = Result(w.dev, b2, w.ok)
      BY <1>2, <2>1
    <3>2. o.dev = w.dev /\ o.buf = b2
      BY <3>1 DEF Result
    <3> QED  BY <1>1, <1>2, <3>2, WriteKeepsDevice DEF Sound
  <2>2. CASE ~(Len(<<x>>) >= Capacity)
    <3>1. o = Result(d2, b2 \o <<x>>, TRUE)
      BY <1>2, <2>2
    <3>2. o.dev = d2 /\ o.buf = b2 \o <<x>>
      BY <3>1 DEF Result
    <3>3. b2 \o <<x>> \in Seq(Int)
      BY <1>1
    <3> QED  BY <1>2, <3>2, <3>3 DEF Sound
  <2> QED  BY <2>1, <2>2
<1>3. CASE Len(<<x>>) > Capacity - Len(b)
  <2>1. PICK f \in FlushBuf(d, b) : IF f.ok THEN o \in put(f.dev, f.buf) ELSE o = f
    BY <1>3 DEF BufWrite, AndThen
  <2>2. Sound(f)
    BY FlushSound
  <2> QED  BY <1>2, <2>1, <2>2 DEF Sound
<1>4. CASE ~(Len(<<x>>) > Capacity - Len(b))
  <2>1. o \in put(d, b)
    BY <1>4 DEF BufWrite
  <2> QED  BY <1>2, <2>1
<1> QED  BY <1>3, <1>4

\* a seek of it,
LEMMA BufSeekSound ==
  ASSUME NEW d, DeviceOK(d), NEW b \in Seq(Int), NEW origin \in Origins, NEW o \in BufSeek(d, b, 0, origin)
  PROVE  Sound(o)
<1> DEFINE inner(d2, b2) == {Result(s.dev, b2, s.ok) : s \in SeekCall(d2, 0, origin)}
<1>1. PICK f \in FlushBuf(d, b) : IF f.ok THEN o \in inner(f.dev, f.buf) ELSE o = f
  BY DEF BufSeek, AndThen
<1>2. Sound(f)
  BY FlushSound
<1>3. CASE o \in inner(f.dev, f.buf)
  <2>1. PICK s \in SeekCall(f.dev, 0, origin) : o = Result(s.dev, f.buf, s.ok)
    BY <1>3
  <2>2. o.dev = s.dev /\ o.buf = f.buf
    BY <2>1 DEF Result
  <2> QED  BY <1>2, <2>2, SeekKeepsDevice DEF Sound
<1> QED  BY <1>1, <1>2, <1>3

\* the first header
LEMMA LasNewSound ==
  ASSUME NEW d, DeviceOK(d), NEW o \in LasNew(d)
  PROVE  Sound(o)
<1>1. PICK current \in Origins, b \in Seq(Int), h \in Int :
        current = "current" /\ b = <<>> /\ h = HeaderOf(0)
  <2>1. "current" \in Origins /\ <<>> \in Seq(Int) /\ HeaderOf(0) \in Int
    BY DEF Origins, HeaderOf
  <2> QED  BY <2>1
<1>2. PICK p \in BufSeek(d, b, 0, current) : IF p.ok THEN o \in BufWrite(p.dev, p.buf, <<h>>) ELSE o = p
  BY <1>1 DEF LasNew, AndThen
<1>3. Sound(p)
  BY BufSeekSound
<1> QED  BY <1>2, <1>3, BufWriteSound DEF Sound

\* and the close of las-rs, at whichever call it fails.
LEMMA LasCloseSound ==
  ASSUME NEW d, DeviceOK(d), NEW b \in Seq(Int), NEW n \in Nat, NEW o \in LasClose(d, b, n)
  PROVE  Sound(o)
<1>1. PICK start \in Origins, end \in Origins, h \in Int : start = "start" /\ end = "end" /\ h = HeaderOf(n)
  BY FileBytes DEF Origins
<1>2. PICK p \in BufSeek(d, b, 0, start) :
        IF p.ok THEN \E q \in BufWrite(p.dev, p.buf, <<h>>) :
                       IF q.ok THEN o \in BufSeek(q.dev, q.buf, 0, end) ELSE o = q
        ELSE o = p
  BY <1>1 DEF LasClose, AndThen
<1>3. Sound(p)
  BY BufSeekSound
<1>4. CASE p.ok
  <2>1. PICK q \in BufWrite(p.dev, p.buf, <<h>>) : IF q.ok THEN o \in BufSeek(q.dev, q.buf, 0, end) ELSE o = q
    BY <1>2, <1>4
  <2>2. Sound(q)
    BY <1>3, BufWriteSound DEF Sound
  <2> QED  BY <2>1, <2>2, BufSeekSound DEF Sound
<1>5. CASE ~p.ok
  BY <1>2, <1>3, <1>5
<1> QED  BY <1>4, <1>5

\* A close that succeeds leaves nothing to flush, whatever came before it.
LEMMA LasCloseEmpties ==
  ASSUME NEW d, DeviceOK(d), NEW b \in Seq(Int), NEW n \in Nat, NEW o \in LasClose(d, b, n), o.ok
  PROVE  o.buf = <<>>
<1>1. PICK start \in Origins, end \in Origins, h \in Int : start = "start" /\ end = "end" /\ h = HeaderOf(n)
  BY FileBytes DEF Origins
<1>2. PICK p \in BufSeek(d, b, 0, start) :
        \E q \in BufWrite(p.dev, p.buf, <<h>>) : o \in BufSeek(q.dev, q.buf, 0, end)
  BY <1>1 DEF LasClose, AndThen
<1>3. PICK q \in BufWrite(p.dev, p.buf, <<h>>) : o \in BufSeek(q.dev, q.buf, 0, end)
  BY <1>2
<1>4. Sound(p)
  BY BufSeekSound
<1>5. Sound(q)
  BY <1>4, BufWriteSound DEF Sound
<1> QED  BY <1>3, <1>5, BufSeekMoves DEF Sound

-----------------------------------------------------------------------------
(* The writer *)

TypeOK ==
  /\ DeviceOK(dev)
  /\ buf \in Seq(Int)
  /\ phase \in {"none", "open", "closed", "freed"}
  /\ count \in Nat
  /\ points \in Seq(Int)
  /\ failed \in BOOLEAN

\* Before the constructor nothing has happened.
NothingYet == phase = "none" => dev.put = Start /\ buf = <<>> /\ points = <<>> /\ count = 0

\* As long as no call has failed, the stream and the BufWriter together hold
\* the first header and all points, each once.
OpenHolds == phase = "open" /\ ~failed => count = Len(points) /\ Written(dev, buf, FileOf(0, points))

\* A closed writer has nothing left to flush.
ClosedEmpty == phase = "closed" => buf = <<>>

\* Without a failure the whole file, with the final count, is in the stream.
EndHolds == phase \in {"closed", "freed"} /\ ~failed => OnDevice(dev, FileOf(Len(points), points))

Inv == TypeOK /\ NothingYet /\ OpenHolds /\ ClosedEmpty /\ EndHolds

\* The stream is there before the writer.
LEMMA InitInv == Init => Inv
<1> SUFFICES ASSUME Init PROVE Inv
  OBVIOUS
<1>1. PICK n \in Sizes, room \in Rooms : dev = NewDevice(n, room)
  BY DEF Init
<1>2. n \in Nat /\ Start <= n /\ room \in Nat /\ Start \in Nat
  BY OutputAssumption, MaxOffsetAssumption
<1>3. [k \in 1 .. n |-> Old] \in Seq(Int) /\ Len([k \in 1 .. n |-> Old]) = n
  BY <1>2 DEF Old
<1>4. DeviceOK(dev) /\ dev.put = Start
  BY <1>1, <1>2, <1>3 DEF NewDevice, DeviceOK
<1>5. <<>> \in Seq(Int)
  OBVIOUS
<1>6. TypeOK /\ NothingYet
  BY <1>4, <1>5 DEF Init, TypeOK, NothingYet
<1> QED  BY <1>6 DEF Init, Inv, OpenHolds, ClosedEmpty, EndHolds

\* A new writer has its header in the stream or in the BufWriter.
LEMMA NewInv ==
  ASSUME Inv, New
  PROVE  Inv'
<1>1. phase = "none" /\ count' = count /\ points' = points /\ count = 0 /\ points = <<>>
  BY DEF New, Inv, NothingYet
<1>2. DeviceOK(dev) /\ dev.put = Start /\ points' \in Seq(Int) /\ count' \in Nat
  BY <1>1 DEF Inv, TypeOK, NothingYet
<1>3. PICK o \in LasNew(dev) :
        /\ Reported(o.ok)
        /\ \/ /\ o.ok
              /\ dev' = o.dev /\ buf' = o.buf /\ phase' = "open"
           \/ /\ ~o.ok
              /\ \E f \in FlushBuf(o.dev, o.buf) : dev' = f.dev
              /\ buf' = <<>> /\ phase' = "freed"
  BY DEF New
<1>4. Sound(o)
  BY <1>2, LasNewSound
<1>5. failed' = (failed \/ ~o.ok) /\ failed' \in BOOLEAN
  BY <1>3 DEF Reported, Inv, TypeOK
<1>6. CASE o.ok /\ dev' = o.dev /\ buf' = o.buf /\ phase' = "open"
  <2>1. TypeOK'
    BY <1>2, <1>4, <1>5, <1>6 DEF TypeOK, Sound
  <2>2. Written(o.dev, o.buf, FileOf(0, <<>>))
    BY <1>2, <1>6, LasNewWrites
  <2>3. Written(dev', buf', FileOf(0, points'))
    BY <1>1, <1>6, <2>2
  <2>4. count' = Len(points')
    BY <1>1
  <2> QED  BY <1>6, <2>1, <2>3, <2>4 DEF Inv, NothingYet, OpenHolds, ClosedEmpty, EndHolds
<1>7. CASE ~o.ok /\ (\E f \in FlushBuf(o.dev, o.buf) : dev' = f.dev) /\ buf' = <<>> /\ phase' = "freed"
  <2>1. DeviceOK(dev')
    BY <1>4, <1>7, FlushSound DEF Sound
  <2>2. failed'
    BY <1>5, <1>7
  <2>3. buf' \in Seq(Int)
    BY <1>7
  <2>4. TypeOK'
    BY <1>2, <1>5, <1>7, <2>1, <2>3 DEF TypeOK
  <2> QED  BY <1>7, <2>2, <2>4 DEF Inv, NothingYet, OpenHolds, ClosedEmpty, EndHolds
<1> QED  BY <1>3, <1>6, <1>7

\* A point that is written follows the ones before it.
LEMMA WritePointInv ==
  ASSUME Inv, NEW p \in Points, WritePoint(p)
  PROVE  Inv'
<1>1. phase = "open" /\ phase' = "open" /\ p \in Int
  BY WriterAssumption DEF WritePoint
<1>2. DeviceOK(dev) /\ buf \in Seq(Int) /\ points \in Seq(Int) /\ count \in Nat
  BY DEF Inv, TypeOK
<1>3. PICK o \in BufWrite(dev, buf, <<p>>) :
        /\ dev' = o.dev /\ buf' = o.buf
        /\ Reported(o.ok)
        /\ points' = IF o.ok THEN Append(points, p) ELSE points
        /\ count' \in IF o.ok THEN {count + 1} ELSE {count, count + 1}
  BY DEF WritePoint
<1>4. Sound(o)
  BY <1>1, <1>2, BufWriteSound
<1>5. failed' = (failed \/ ~o.ok) /\ failed' \in BOOLEAN
  BY <1>3 DEF Reported, Inv, TypeOK
<1>6. Append(points, p) \in Seq(Int) /\ Len(Append(points, p)) = Len(points) + 1
  BY <1>1, <1>2
<1>7. points' \in Seq(Int) /\ count' \in Nat
  BY <1>2, <1>3, <1>6
<1>8. TypeOK'
  BY <1>1, <1>3, <1>4, <1>5, <1>7 DEF TypeOK, Sound
<1>9. ASSUME ~failed'
      PROVE  count' = Len(points') /\ Written(dev', buf', FileOf(0, points'))
  <2>1. o.ok /\ ~failed
    BY <1>5, <1>9
  <2>2. count = Len(points) /\ Written(dev, buf, FileOf(0, points))
    BY <1>1, <2>1 DEF Inv, OpenHolds
  <2>3. points' = Append(points, p) /\ count' = count + 1
    BY <1>3, <2>1
  <2>4. Written(o.dev, o.buf, Append(FileOf(0, points), p))
    BY <1>1, <2>1, <2>2, BufWriteAppends
  <2>5. Append(FileOf(0, points), p) = FileOf(0, Append(points, p))
    <3>1. PICK h \in Int : h = HeaderOf(0)
      BY DEF HeaderOf
    <3>2. \A s \in Seq(Int), x \in Int : Append(<<h>> \o s, x) = <<h>> \o Append(s, x)
      OBVIOUS
    <3> QED  BY <1>1, <1>2, <3>1, <3>2 DEF FileOf
  <2> QED  BY <1>3, <1>6, <2>2, <2>3, <2>4, <2>5
<1> QED  BY <1>1, <1>8, <1>9 DEF Inv, NothingYet, OpenHolds, ClosedEmpty, EndHolds

\* A close that succeeds leaves the whole file in the stream.
LEMMA CloseInv ==
  ASSUME Inv, Close
  PROVE  Inv'
<1>1. phase = "open" /\ count' = count /\ points' = points
  BY DEF Close
<1>2. DeviceOK(dev) /\ buf \in Seq(Int) /\ points \in Seq(Int) /\ count \in Nat
  BY DEF Inv, TypeOK
<1>3. PICK o \in LasClose(dev, buf, count) :
        /\ dev' = o.dev /\ buf' = o.buf
        /\ Reported(o.ok)
        /\ phase' = IF o.ok THEN "closed" ELSE "open"
  BY DEF Close
<1>4. Sound(o)
  BY <1>2, LasCloseSound
<1>5. failed' = (failed \/ ~o.ok) /\ failed' \in BOOLEAN
  BY <1>3 DEF Reported, Inv, TypeOK
<1>6. TypeOK'
  BY <1>1, <1>2, <1>3, <1>4, <1>5 DEF TypeOK, Sound
<1>7. CASE o.ok
  <2>1. phase' = "closed" /\ (failed' <=> failed)
    BY <1>3, <1>5, <1>7
  <2>2. ASSUME ~failed PROVE OnDevice(o.dev, FileOf(Len(points), points)) /\ o.buf = <<>>
    <3>1. count = Len(points) /\ Written(dev, buf, FileOf(0, points))
      BY <1>1, <2>2 DEF Inv, OpenHolds
    <3>2. OnDevice(o.dev, FileOf(count, points)) /\ o.buf = <<>>
      BY <1>2, <1>7, <3>1, LasCloseStores
    <3> QED  BY <3>1, <3>2
  <2>3. o.buf = <<>>
    BY <1>2, <1>7, LasCloseEmpties
  <2> QED  BY <1>1, <1>3, <1>6, <2>1, <2>2, <2>3 DEF Inv, NothingYet, OpenHolds, ClosedEmpty, EndHolds
<1>8. CASE ~o.ok
  <2>1. phase' = "open" /\ failed'
    BY <1>3, <1>5, <1>8
  <2> QED  BY <1>6, <2>1 DEF Inv, NothingYet, OpenHolds, ClosedEmpty, EndHolds
<1> QED  BY <1>7, <1>8

\* Dropping a closed writer does nothing.
LEMMA DropClosed ==
  ASSUME NEW d, NEW n, NEW o \in LasDrop(d, <<>>, n, FALSE)
  PROVE  o.dev = d /\ o.ok
<1>1. PICK c \in {Result(d, <<>>, TRUE)} : \E f \in FlushBuf(c.dev, c.buf) : o = Result(f.dev, f.buf, f.ok /\ c.ok)
  BY DEF LasDrop
<1>2. c.dev = d /\ c.buf = <<>> /\ c.ok = TRUE
  BY <1>1 DEF Result
<1>3. PICK f \in FlushBuf(d, <<>>) : o = Result(f.dev, f.buf, f.ok /\ TRUE)
  BY <1>1, <1>2
<1>4. f = Result(d, <<>>, TRUE)
  BY <1>3 DEF FlushBuf
<1> QED  BY <1>3, <1>4 DEF Result

\* Dropping an open one closes it, and flushes what a failed close left.
LEMMA DropOpen ==
  ASSUME NEW d, DeviceOK(d), NEW b \in Seq(Int), NEW n \in Nat, NEW o \in LasDrop(d, b, n, TRUE)
  PROVE  \E c \in LasClose(d, b, n) :
           \E f \in FlushBuf(c.dev, c.buf) : o.dev = f.dev /\ o.ok = (f.ok /\ c.ok)
<1>1. PICK c \in LasClose(d, b, n) : \E f \in FlushBuf(c.dev, c.buf) : o = Result(f.dev, f.buf, f.ok /\ c.ok)
  BY DEF LasDrop
<1> QED  BY <1>1 DEF Result

\* A destructor closes a writer that is open, and touches no closed one.
LEMMA FreeInv ==
  ASSUME Inv, Free
  PROVE  Inv'
<1>1. /\ phase \in {"open", "closed"} /\ phase' = "freed" /\ buf' = <<>>
      /\ count' = count /\ points' = points
  BY DEF Free
<1>2. DeviceOK(dev) /\ buf \in Seq(Int) /\ points \in Seq(Int) /\ count \in Nat
  BY DEF Inv, TypeOK
<1>3. PICK o \in LasDrop(dev, buf, count, phase = "open") : dev' = o.dev /\ failed' = (failed \/ ~o.ok)
  BY DEF Free
<1>4. failed' \in BOOLEAN /\ buf' \in Seq(Int)
  BY <1>1, <1>3 DEF Inv, TypeOK
<1>5. SUFFICES /\ DeviceOK(dev')
               /\ ~failed' => OnDevice(dev', FileOf(Len(points), points))
  BY <1>1, <1>2, <1>4 DEF Inv, TypeOK, NothingYet, OpenHolds, ClosedEmpty, EndHolds
<1>6. CASE phase = "closed"
  <2>1. buf = <<>> /\ (phase = "open") = FALSE
    BY <1>6 DEF Inv, ClosedEmpty
  <2>2. dev' = dev /\ (~failed' => ~failed)
    BY <1>3, <2>1, DropClosed
  <2>3. ~failed => OnDevice(dev, FileOf(Len(points), points))
    BY <1>6 DEF Inv, EndHolds
  <2> QED  BY <1>2, <2>2, <2>3
<1>7. CASE phase = "open"
  <2>1. (phase = "open") = TRUE
    BY <1>7
  <2>2. PICK c \in LasClose(dev, buf, count) :
          \E f \in FlushBuf(c.dev, c.buf) : o.dev = f.dev /\ o.ok = (f.ok /\ c.ok)
    BY <1>2, <1>3, <2>1, DropOpen
  <2>3. PICK f \in FlushBuf(c.dev, c.buf) : o.dev = f.dev /\ o.ok = (f.ok /\ c.ok)
    BY <2>2
  <2>4. Sound(c)
    BY <1>2, LasCloseSound
  <2>5. Sound(f)
    BY <2>4, FlushSound DEF Sound
  <2>6. ASSUME ~failed' PROVE OnDevice(dev', FileOf(Len(points), points))
    <3>1. ~failed /\ c.ok
      BY <1>3, <2>3, <2>6
    <3>2. count = Len(points) /\ Written(dev, buf, FileOf(0, points))
      BY <1>7, <3>1 DEF Inv, OpenHolds
    <3>3. OnDevice(c.dev, FileOf(count, points)) /\ c.buf = <<>>
      BY <1>2, <3>1, <3>2, LasCloseStores
    <3>4. f.dev = c.dev
      BY <2>3, <3>3 DEF FlushBuf, Result
    <3> QED  BY <1>3, <2>3, <3>2, <3>3, <3>4
  <2> QED  BY <1>3, <2>3, <2>5, <2>6 DEF Sound
<1> QED  BY <1>1, <1>6, <1>7

\* Room that appears on the device moves nothing.
LEMMA RoomFreedInv ==
  ASSUME Inv, RoomFreed
  PROVE  Inv' /\ dev'.content = dev.content
<1>1. PICK room \in Rooms : dev' = [dev EXCEPT !.room = room]
  BY DEF RoomFreed
<1>2. room \in Nat
  BY OutputAssumption, MaxOffsetAssumption
<1>3. DeviceOK(dev') /\ dev'.content = dev.content /\ dev'.put = dev.put
  BY <1>1, <1>2 DEF Inv, TypeOK, DeviceOK
<1>4. buf' = buf /\ phase' = phase /\ count' = count /\ points' = points /\ failed' = failed
  BY DEF RoomFreed
<1>5. TypeOK' /\ NothingYet' /\ ClosedEmpty'
  BY <1>3, <1>4 DEF Inv, TypeOK, NothingYet, ClosedEmpty
<1>6. OpenHolds'
  BY <1>3, <1>4 DEF Inv, OpenHolds, Written
<1>7. EndHolds'
  BY <1>3, <1>4 DEF Inv, EndHolds, OnDevice
<1> QED  BY <1>3, <1>5, <1>6, <1>7 DEF Inv

\* Every call on the writer keeps the invariant.
LEMMA NextInv == Inv /\ [Next]_vars => Inv'
<1> SUFFICES ASSUME Inv, [Next]_vars PROVE Inv'
  OBVIOUS
<1>1. CASE New
  BY <1>1, NewInv
<1>2. ASSUME NEW p \in Points, WritePoint(p) PROVE Inv'
  BY <1>2, WritePointInv
<1>3. CASE RefusedWhenClosed
  BY <1>3 DEF RefusedWhenClosed, Inv, TypeOK, NothingYet, OpenHolds, ClosedEmpty, EndHolds
<1>4. CASE Close
  BY <1>4, CloseInv
<1>5. CASE Free
  BY <1>5, FreeInv
<1>6. CASE RoomFreed
  BY <1>6, RoomFreedInv
<1>7. CASE UNCHANGED vars
  BY <1>7 DEF vars, Inv, TypeOK, NothingYet, OpenHolds, ClosedEmpty, EndHolds
<1> QED  BY <1>1, <1>2, <1>3, <1>4, <1>5, <1>6, <1>7 DEF Next

\* What the stream, the BufWriter and the writer owe each other in every state.
THEOREM Invariance == Spec => []Inv
BY InitInv, NextInv, PTL DEF Spec

\* Bytes that are on the device are what SubSeq shows of it.
LEMMA OnDeviceIsSubSeq ==
  ASSUME NEW d, NEW s \in Seq(Int), OnDevice(d, s)
  PROVE  SubSeq(d.content, Start + 1, Start + Len(s)) = s
<1>1. PICK content \in Seq(Int) : content = d.content
  BY DEF OnDevice, DeviceOK
<1>2. /\ Start \in Nat /\ Len(s) \in Nat /\ Start + Len(s) <= Len(content)
      /\ \A k \in Start + 1 .. Start + Len(s) : content[k] = s[k - Start]
  BY <1>1, OutputAssumption DEF OnDevice
<1>3. PICK sub \in Seq(Int) : sub = SubSeq(content, Start + 1, Start + Len(s))
  <2>1. SubSeq(content, Start + 1, Start + Len(s)) \in Seq(Int)
    BY <1>2
  <2> QED  BY <2>1
<1>4. Len(sub) = Len(s) /\ \A i \in 1 .. Len(s) : sub[i] = content[Start + i]
  BY <1>2, <1>3
<1>5. ASSUME NEW i \in 1 .. Len(s) PROVE sub[i] = s[i]
  <2>1. PICK k \in Start + 1 .. Start + Len(s) : k = Start + i
    BY <1>2
  <2>2. content[k] = s[k - Start] /\ k - Start = i
    BY <1>2, <2>1
  <2> QED  BY <1>4, <2>1, <2>2
<1>6. sub = s
  <2>1. sub \in [1 .. Len(s) -> Int] /\ s \in [1 .. Len(s) -> Int]
    BY <1>4
  <2> QED  BY <1>5, <2>1
<1> QED  BY <1>1, <1>3, <1>6

\* Whatever the capacity of the BufWriter, the devices and the faults: once a
\* writer is closed or destroyed, its whole file is in the stream or some call
\* on it, or its destruction, failed.
THEOREM NothingLostSilently == Spec => []NoSilentLoss
<1>1. Inv => NoSilentLoss
  <2> SUFFICES ASSUME Inv, phase \in {"closed", "freed"}, ~failed
               PROVE  Complete
    BY DEF NoSilentLoss
  <2>1. points \in Seq(Int) /\ Len(points) \in Nat
    BY DEF Inv, TypeOK
  <2>2. PICK s \in Seq(Int) : s = FileOf(Len(points), points)
    BY <2>1, FileBytes
  <2>3. OnDevice(dev, s)
    BY <2>2 DEF Inv, EndHolds
  <2>4. SubSeq(dev.content, Start + 1, Start + Len(s)) = s
    BY <2>3, OnDeviceIsSubSeq
  <2>5. Len(dev.content) >= Start + Len(s)
    BY <2>3, OutputAssumption DEF OnDevice, DeviceOK
  <2> QED  BY <2>2, <2>4, <2>5 DEF Complete, FileOf
<1> QED  BY <1>1, Invariance, PTL

\* Calls on a closed writer, and its destruction, change no byte of the stream,
\* also when earlier calls had failed.
THEOREM ClosedStaysFinal == Spec => ClosedIsFinal
<1>1. Inv /\ [Next]_vars => [phase = "closed" => dev'.content = dev.content]_vars
  <2> SUFFICES ASSUME Inv, Next, phase = "closed" PROVE dev'.content = dev.content
    OBVIOUS
  <2>1. CASE RefusedWhenClosed
    BY <2>1 DEF RefusedWhenClosed
  <2>2. CASE Free
    <3>1. buf = <<>> /\ (phase = "open") = FALSE
      BY DEF Inv, ClosedEmpty
    <3>2. PICK o \in LasDrop(dev, buf, count, phase = "open") : dev' = o.dev
      BY <2>2 DEF Free
    <3> QED  BY <3>1, <3>2, DropClosed
  <2>3. CASE RoomFreed
    BY <2>3, RoomFreedInv
  <2> QED  BY <2>1, <2>2, <2>3 DEF Next, New, WritePoint, Close
<1> QED  BY <1>1, Invariance, PTL DEF Spec, ClosedIsFinal

-----------------------------------------------------------------------------
(* The adapter on its own *)

\* A device that also stays within what std::streamoff can address.
Addressable(d) == DeviceOK(d) /\ d.room <= MaxOffset /\ Len(d.content) <= MaxOffset

\* What is appended within the room can still be addressed.
LEMMA AppendedAddressable ==
  ASSUME NEW d, Addressable(d), NEW bytes \in Seq(Int), NEW e, Appended(d, bytes, e),
         Len(bytes) > 0 => d.put + Len(bytes) <= d.room
  PROVE  Addressable(e)
<1>1. PICK put \in Nat, room \in Nat, content \in Seq(Int), n \in Nat :
        put = d.put /\ room = d.room /\ content = d.content /\ n = Len(bytes)
  BY DEF Addressable, DeviceOK
<1>2. put <= Len(content) /\ Len(content) \in Nat /\ Len(content) <= MaxOffset /\ room <= MaxOffset
  BY <1>1 DEF Addressable, DeviceOK
<1>3. MaxOffset \in Nat /\ (n > 0 => put + n <= room)
  BY <1>1, MaxOffsetAssumption
<1>4. e.room = room /\ Len(e.content) = (IF put + n > Len(content) THEN put + n ELSE Len(content)) /\ DeviceOK(e)
  BY <1>1 DEF Appended
<1>5. (IF put + n > Len(content) THEN put + n ELSE Len(content)) <= MaxOffset
  <2>1. CASE n = 0
    BY <1>2, <1>3, <2>1
  <2>2. CASE n > 0
    BY <1>2, <1>3, <2>2
  <2> QED  BY <2>1, <2>2
<1> QED  BY <1>2, <1>4, <1>5 DEF Addressable

\* What sputn may do, in terms of what is stored.
LEMMA SputnAppends ==
  ASSUME NEW d, Addressable(d), NEW bytes \in Seq(Int), NEW o \in Sputn(d, bytes)
  PROVE  /\ Addressable(o.dev) /\ o.ok \in BOOLEAN
         /\ \E k \in 0 .. Len(bytes) :
              Appended(d, SubSeq(bytes, 1, k), o.dev) /\ (o.ok => k = Len(bytes))
<1>1. DeviceOK(d)
  BY DEF Addressable
<1>2. PICK k \in 0 .. Len(bytes) :
        /\ o.dev = Stored(d, SubSeq(bytes, 1, k))
        /\ o.ok \in BOOLEAN /\ (o.ok => k = Len(bytes))
        /\ k > 0 => d.put + k <= d.room
  BY <1>1, SputnStoresPrefix
<1>3. PICK t \in Seq(Int) : t = SubSeq(bytes, 1, k)
  <2>1. SubSeq(bytes, 1, k) \in Seq(Int)
    OBVIOUS
  <2> QED  BY <2>1
<1>4. Len(t) = k
  BY <1>3
<1>5. Appended(d, t, o.dev)
  BY <1>1, <1>2, <1>3, StoredAppends
<1>6. Addressable(o.dev)
  BY <1>2, <1>4, <1>5, AppendedAddressable
<1> QED  BY <1>2, <1>3, <1>5, <1>6

\* The ways a seek to sum may go, in the caller's positions: it fails, is past
\* the end and fills the gap with zeros, or is within what there is.
SeekWent(d, last, sum, o) ==
  \/ o.ok = FALSE /\ o.position = 0 /\ o.dev \in {d, AtEnd(d)}
  \/ /\ sum > last /\ sum <= MaxOffset
     /\ \E s \in Sputn(AtEnd(d), [k \in 1 .. sum - last |-> Zero]) :
          o.dev = s.dev /\ o.ok = s.ok /\ o.position = IF s.ok THEN sum ELSE 0
  \/ sum \in 0 .. last /\ o.ok = TRUE /\ o.position = sum /\ o.dev = [d EXCEPT !.put = Start + sum]

\* A seek fails where it is or at the end, moves, or fills a gap.
LEMMA SeekOutcomes ==
  ASSUME NEW d, Addressable(d), NEW origin \in Origins, NEW offset \in Offsets(origin),
         NEW at \in Nat, at = d.put - Start, NEW last \in Nat, last = Len(d.content) - Start,
         NEW sum \in Int, sum = SeekBase(origin, at, last) + offset,
         NEW o \in SeekCall(d, offset, origin)
  PROVE  SeekWent(d, last, sum, o)
<1>1. at \in 0 .. MaxOffset /\ last \in 0 .. MaxOffset /\ at <= last /\ MaxOffset \in Nat
  <2>1. PICK put \in Nat, n \in Nat : put = d.put /\ n = Len(d.content) /\ put <= n /\ n <= MaxOffset /\ Start <= put
    BY DEF Addressable, DeviceOK
  <2>2. at = put - Start /\ last = n - Start /\ Start \in Nat /\ MaxOffset \in Nat
    BY <2>1, OutputAssumption, MaxOffsetAssumption
  <2> QED  BY <2>1, <2>2
<1>2. PICK base \in 0 .. MaxOffset : base = SeekBase(origin, at, last)
  <2>1. 0 \in 0 .. MaxOffset
    BY <1>1
  <2> QED  BY <1>1, <2>1 DEF SeekBase
<1>3. offset \in Int
  BY <1>1 DEF Offsets
<1>4. PICK target : target = SeekTarget(offset, origin, at, last)
  OBVIOUS
<1>5. target = None \/ (target = sum /\ sum >= 0 /\ sum <= MaxOffset)
  <2>1. sum = base + offset
    BY <1>2
  <2>2. target = IF (offset > 0 /\ base > MaxOffset - offset) \/ base + offset < 0 THEN None ELSE base + offset
    BY <1>2, <1>4 DEF SeekTarget
  <2>3. CASE (offset > 0 /\ base > MaxOffset - offset) \/ base + offset < 0
    BY <2>2, <2>3
  <2>4. CASE ~((offset > 0 /\ base > MaxOffset - offset) \/ base + offset < 0)
    <3>1. target = sum
      BY <2>1, <2>2, <2>4
    <3>2. base + offset >= 0 /\ base + offset <= MaxOffset
      BY <1>1, <1>2, <1>3, <2>4
    <3> QED  BY <2>1, <3>1, <3>2
  <2> QED  BY <2>3, <2>4
<1>6. \/ o = Failed(d) \/ o = Failed(AtEnd(d))
      \/ /\ target # None /\ target > last
         /\ \E s \in ZeroFilled(d, target - last) : o = Outcome(s.dev, s.ok, IF s.ok THEN target ELSE 0)
      \/ target # None /\ ~(target > last) /\ o = Outcome([d EXCEPT !.put = Start + target], TRUE, target)
  <2>1. o \in IF offset > MaxOffset THEN {Failed(d)}
              ELSE (IF Faulty THEN {Failed(d), Failed(AtEnd(d))} ELSE {})
                     \cup (IF target = None THEN {Failed(AtEnd(d))}
                           ELSE IF target > last
                           THEN {Outcome(s.dev, s.ok, IF s.ok THEN target ELSE 0) : s \in ZeroFilled(d, target - last)}
                           ELSE {Outcome([d EXCEPT !.put = Start + target], TRUE, target)})
    BY <1>4, Zenon DEF SeekCall
  <2> QED  BY <2>1
<1>7. CASE o = Failed(d) \/ o = Failed(AtEnd(d))
  BY <1>7 DEF Failed, Outcome, SeekWent
<1>8. CASE /\ target # None /\ target > last
           /\ \E s \in ZeroFilled(d, target - last) : o = Outcome(s.dev, s.ok, IF s.ok THEN target ELSE 0)
  <2>1. target = sum
    BY <1>5, <1>8
  <2>2. PICK s \in ZeroFilled(d, sum - last) : o = Outcome(s.dev, s.ok, IF s.ok THEN sum ELSE 0)
    BY <1>8, <2>1
  <2>3. o.dev = s.dev /\ o.ok = s.ok /\ o.position = IF s.ok THEN sum ELSE 0
    BY <2>2 DEF Outcome
  <2>4. s \in Sputn(AtEnd(d), [k \in 1 .. sum - last |-> Zero])
    BY <2>2 DEF ZeroFilled
  <2>5. sum > last /\ sum <= MaxOffset
    BY <1>5, <1>8, <2>1
  <2> QED  BY <2>3, <2>4, <2>5 DEF SeekWent
<1>9. CASE target # None /\ ~(target > last) /\ o = Outcome([d EXCEPT !.put = Start + target], TRUE, target)
  <2>1. target = sum /\ sum >= 0
    BY <1>5, <1>9
  <2>2. sum \in 0 .. last
    BY <1>9, <2>1
  <2>3. o.ok = TRUE /\ o.position = sum /\ o.dev = [d EXCEPT !.put = Start + sum]
    BY <1>9, <2>1 DEF Outcome
  <2> QED  BY <2>2, <2>3 DEF SeekWent
<1> QED  BY <1>6, <1>7, <1>8, <1>9

\* What a callback may make of a device, failing or not.
Reaches(d, e) == Addressable(e) /\ \A k \in 1 .. Start : e.content[k] = d.content[k]

\* Appending leaves what is before start_ alone.
LEMMA AppendedReaches ==
  ASSUME NEW d, Addressable(d), NEW bytes, NEW e, Addressable(e), Appended(d, bytes, e)
  PROVE  Reaches(d, e)
<1>1. PICK put \in Nat, n \in Nat, new \in Nat : put = d.put /\ n = Len(e.content) /\ new = e.put
  BY DEF Addressable, DeviceOK
<1>2. Start <= put /\ Start <= new /\ new <= n /\ Start \in Nat
  BY <1>1, OutputAssumption DEF Addressable, DeviceOK
<1>3. ASSUME NEW k \in 1 .. Start PROVE e.content[k] = d.content[k]
  <2>1. k \in 1 .. n /\ k \notin put + 1 .. new
    BY <1>2
  <2>2. e.content[k] = IF k \in put + 1 .. new THEN bytes[k - put] ELSE d.content[k]
    BY <1>1, <2>1 DEF Appended
  <2> QED  BY <2>1, <2>2
<1> QED  BY <1>3 DEF Reaches

\* So does moving.
LEMMA MovedReaches ==
  ASSUME NEW d, Addressable(d), NEW put \in Nat, Start <= put, put <= Len(d.content)
  PROVE  /\ Reaches(d, [d EXCEPT !.put = put])
         /\ [d EXCEPT !.put = put].content = d.content /\ [d EXCEPT !.put = put].put = put
BY DEF Reaches, Addressable, DeviceOK

\* So does asking for the end.
LEMMA AtEndReaches ==
  ASSUME NEW d, Addressable(d)
  PROVE  Reaches(d, AtEnd(d)) /\ Addressable(AtEnd(d))
<1>1. DeviceOK(d)
  BY DEF Addressable
<1> QED  BY <1>1, AtEndKeepsDevice DEF Reaches, Addressable

\* So does a write, whole or in part,
LEMMA WriteReaches ==
  ASSUME NEW d, Addressable(d), NEW bytes \in Seq(Int), NEW o \in WriteCall(d, bytes)
  PROVE  Reaches(d, o.dev)
<1>1. PICK s \in Sputn(d, bytes) : o = Outcome(s.dev, s.ok, 0)
  BY DEF WriteCall
<1>2. o.dev = s.dev
  BY <1>1 DEF Outcome
<1>3. Addressable(s.dev) /\ \E k \in 0 .. Len(bytes) : Appended(d, SubSeq(bytes, 1, k), s.dev)
  BY SputnAppends
<1> QED  BY <1>2, <1>3, AppendedReaches

\* The zeros of a gap, as a sequence.
LEMMA ZerosSeq ==
  ASSUME NEW n \in Nat
  PROVE  /\ [k \in 1 .. n |-> Zero] \in Seq(Int) /\ Len([k \in 1 .. n |-> Zero]) = n
         /\ \A k \in 1 .. n : [j \in 1 .. n |-> Zero][k] = 0
BY DEF Zero

\* The numbers that a seek is about.
LEMMA SeekNumbers ==
  ASSUME NEW d, Addressable(d), NEW origin \in Origins, NEW offset \in Offsets(origin)
  PROVE  \E at \in Nat, last \in Nat, sum \in Int :
           /\ at = d.put - Start /\ last = Len(d.content) - Start /\ at <= last
           /\ sum = SeekBase(origin, at, last) + offset
<1>1. PICK put \in Nat, n \in Nat : put = d.put /\ n = Len(d.content) /\ put <= n /\ Start <= put
  BY DEF Addressable, DeviceOK
<1>2. Start \in Nat /\ MaxOffset \in Nat
  BY OutputAssumption, MaxOffsetAssumption
<1>3. put - Start \in Nat /\ n - Start \in Nat /\ put - Start <= n - Start
  BY <1>1, <1>2
<1>4. offset \in Int
  BY <1>2 DEF Offsets
<1>5. PICK at \in Nat, last \in Nat : at = put - Start /\ last = n - Start /\ at <= last
  BY <1>3
<1>6. PICK base \in Nat : base = SeekBase(origin, at, last)
  BY <1>5 DEF SeekBase
<1>7. base + offset \in Int
  BY <1>4
<1> QED  BY <1>1, <1>5, <1>6, <1>7

\* and a seek, whether it moves or fills a gap.
LEMMA SeekReaches ==
  ASSUME NEW d, Addressable(d), NEW origin \in Origins, NEW offset \in Offsets(origin),
         NEW o \in SeekCall(d, offset, origin)
  PROVE  Reaches(d, o.dev)
<1>1. PICK at \in Nat, last \in Nat, sum \in Int :
        /\ at = d.put - Start /\ last = Len(d.content) - Start
        /\ sum = SeekBase(origin, at, last) + offset
  BY SeekNumbers
<1>2. CASE o.dev \in {d, AtEnd(d)}
  BY <1>2, AtEndReaches DEF Reaches
<1>3. CASE /\ sum > last
           /\ \E s \in Sputn(AtEnd(d), [k \in 1 .. sum - last |-> Zero]) : o.dev = s.dev
  <2>1. sum - last \in Nat
    BY <1>3
  <2>2. PICK zeros \in Seq(Int) : zeros = [k \in 1 .. sum - last |-> Zero]
    BY <2>1, ZerosSeq
  <2>3. PICK s \in Sputn(AtEnd(d), zeros) : o.dev = s.dev
    BY <1>3, <2>2
  <2>4. Addressable(AtEnd(d)) /\ Reaches(d, AtEnd(d))
    BY AtEndReaches
  <2>5. PICK k \in 0 .. Len(zeros) : Addressable(s.dev) /\ Appended(AtEnd(d), SubSeq(zeros, 1, k), s.dev)
    BY <2>4, SputnAppends
  <2>6. Reaches(AtEnd(d), s.dev)
    BY <2>4, <2>5, AppendedReaches
  <2> QED  BY <2>3, <2>4, <2>6 DEF Reaches
<1>4. CASE sum \in 0 .. last /\ o.dev = [d EXCEPT !.put = Start + sum]
  <2>1. PICK n \in Nat : n = Len(d.content) /\ Start <= n
    BY OutputAssumption DEF Addressable, DeviceOK
  <2>2. Start + sum \in Nat /\ Start <= Start + sum /\ Start + sum <= n
    BY <1>1, <1>4, <2>1, OutputAssumption
  <2> QED  BY <1>4, <2>1, <2>2, MovedReaches
<1>5. SeekWent(d, last, sum, o)
  BY <1>1, SeekOutcomes
<1>6. \/ o.dev \in {d, AtEnd(d)}
      \/ sum > last /\ \E s \in Sputn(AtEnd(d), [k \in 1 .. sum - last |-> Zero]) : o.dev = s.dev
      \/ sum \in 0 .. last /\ o.dev = [d EXCEPT !.put = Start + sum]
  BY <1>5, Zenon DEF SeekWent
<1> QED  BY <1>2, <1>3, <1>4, <1>6, Zenon

\* One step of the adapter on its own.
LEMMA AdapterStep ==
  ASSUME AdapterNext
  PROVE  \/ \E bytes \in Writes : \E o \in WriteCall(dev, bytes) :
              /\ dev' = o.dev
              /\ ret' = [call |-> File!WriteCall(bytes), ok |-> o.ok, position |-> o.position]
         \/ \E origin \in Origins : \E offset \in Offsets(origin) : \E o \in SeekCall(dev, offset, origin) :
              /\ dev' = o.dev
              /\ ret' = [call |-> File!SeekCall(offset, origin), ok |-> o.ok, position |-> o.position]
         \/ /\ dev' = dev
            /\ \E ok \in BOOLEAN : ret' = [call |-> File!FlushCall, ok |-> ok, position |-> 0]
<1>1. ASSUME NEW bytes \in Writes, Called(File!WriteCall(bytes), WriteCall(dev, bytes))
      PROVE  \E o \in WriteCall(dev, bytes) :
               /\ dev' = o.dev
               /\ ret' = [call |-> File!WriteCall(bytes), ok |-> o.ok, position |-> o.position]
  BY <1>1 DEF Called
<1>2. ASSUME NEW origin \in Origins, NEW offset \in Offsets(origin),
             Called(File!SeekCall(offset, origin), SeekCall(dev, offset, origin))
      PROVE  \E o \in SeekCall(dev, offset, origin) :
               /\ dev' = o.dev
               /\ ret' = [call |-> File!SeekCall(offset, origin), ok |-> o.ok, position |-> o.position]
  BY <1>2 DEF Called
<1>3. ASSUME Called(File!FlushCall, FlushCall(dev))
      PROVE  /\ dev' = dev
             /\ \E ok \in BOOLEAN : ret' = [call |-> File!FlushCall, ok |-> ok, position |-> 0]
  <2>1. PICK o \in FlushCall(dev) :
          dev' = o.dev /\ ret' = [call |-> File!FlushCall, ok |-> o.ok, position |-> o.position]
    BY <1>3 DEF Called
  <2>2. o.dev = dev /\ o.position = 0 /\ o.ok \in BOOLEAN
    <3>1. o = Outcome(dev, TRUE, 0) \/ o = Outcome(dev, FALSE, 0)
      BY <2>1 DEF FlushCall, Failed
    <3>2. CASE o = Outcome(dev, TRUE, 0)
      BY <3>2 DEF Outcome
    <3>3. CASE o = Outcome(dev, FALSE, 0)
      BY <3>3 DEF Outcome
    <3> QED  BY <3>1, <3>2, <3>3
  <2> QED  BY <2>1, <2>2
<1> QED  BY <1>1, <1>2, <1>3 DEF AdapterNext

\* The inductive invariant of the adapter.
AdapterInv == Addressable(dev) /\ PrefixUntouched

\* A stream is addressable when the adapter is made.
LEMMA AdapterInitInv == AdapterInit => AdapterInv
<1> SUFFICES ASSUME AdapterInit PROVE AdapterInv
  OBVIOUS
<1>1. PICK n \in Sizes, room \in Rooms : dev = [content |-> [k \in 1 .. n |-> 1], put |-> Start, room |-> room]
  BY DEF AdapterInit, NewDevice, Old
<1>2. n \in Nat /\ Start <= n /\ n <= MaxOffset /\ room \in Nat /\ room <= MaxOffset /\ Start \in Nat
  BY OutputAssumption, MaxOffsetAssumption
<1>3. PICK content \in Seq(Int) : content = [k \in 1 .. n |-> 1] /\ Len(content) = n
  <2>1. [k \in 1 .. n |-> 1] \in Seq(Int) /\ Len([k \in 1 .. n |-> 1]) = n
    BY <1>2
  <2> QED  BY <2>1
<1>4. Addressable(dev)
  BY <1>1, <1>2, <1>3 DEF Addressable, DeviceOK
<1>5. \A k \in 1 .. Start : k \in 1 .. n
  BY <1>2
<1>6. PrefixUntouched
  BY <1>1, <1>5 DEF PrefixUntouched, Old
<1> QED  BY <1>4, <1>6 DEF AdapterInv

\* Every call on the adapter keeps the stream addressable and its prefix intact.
LEMMA AdapterNextInv ==
  ASSUME AdapterInv, [AdapterNext]_adapterVars
  PROVE  AdapterInv'
<1>1. CASE Reaches(dev, dev')
  BY <1>1 DEF Reaches, AdapterInv, PrefixUntouched, Old
<1>2. CASE UNCHANGED adapterVars
  BY <1>2 DEF adapterVars, AdapterInv, Addressable, DeviceOK, PrefixUntouched, Old
<1>3. CASE AdapterNext
  <2>1. Addressable(dev)
    BY DEF AdapterInv
  <2>2. CASE \E bytes \in Writes : \E o \in WriteCall(dev, bytes) : dev' = o.dev
    BY <1>1, <2>1, <2>2, WriteReaches, WritesAssumption
  <2>3. CASE \E origin \in Origins : \E offset \in Offsets(origin) : \E o \in SeekCall(dev, offset, origin) : dev' = o.dev
    BY <1>1, <2>1, <2>3, SeekReaches
  <2>4. CASE dev' = dev
    BY <1>1, <2>1, <2>4 DEF Reaches
  <2> QED  BY <1>3, <2>2, <2>3, <2>4, AdapterStep
<1> QED  BY <1>2, <1>3

\* The adapter never touches what was in the stream before where it was made,
\* whatever is written, wherever it seeks and however the buffer fails.
THEOREM PrefixStaysUntouched ==
  AdapterSpec => []PrefixUntouched
<1>1. AdapterInv => PrefixUntouched
  BY DEF AdapterInv
<1>2. AdapterInv /\ [AdapterNext]_adapterVars => AdapterInv'
  BY AdapterNextInv
<1> QED  BY <1>1, <1>2, AdapterInitInv, PTL DEF AdapterSpec

-----------------------------------------------------------------------------
(* The adapter is a writable file *)

\* The bytes of the file: what the stream has from Start on.
DataOf(d) == SubSeq(d.content, Start + 1, Len(d.content))

\* What the file of las-rs holds are the bytes from start_ on.
LEMMA DataBytes ==
  ASSUME NEW d, DeviceOK(d)
  PROVE  /\ DataOf(d) \in Seq(Int) /\ Len(DataOf(d)) = Len(d.content) - Start
         /\ Len(d.content) - Start \in Nat
         /\ \A i \in 1 .. Len(d.content) - Start : DataOf(d)[i] = d.content[Start + i]
<1>1. PICK content \in Seq(Int) : content = d.content
  BY DEF DeviceOK
<1>2. Start \in Nat /\ Len(content) \in Nat /\ Start <= Len(content)
  BY <1>1, OutputAssumption DEF DeviceOK
<1>3. /\ SubSeq(content, Start + 1, Len(content)) \in Seq(Int)
      /\ Len(SubSeq(content, Start + 1, Len(content))) = Len(content) - Start
      /\ \A i \in 1 .. Len(content) - Start : SubSeq(content, Start + 1, Len(content))[i] = content[Start + i]
  BY <1>2
<1>4. Len(content) - Start \in Nat
  BY <1>2
<1> QED  BY <1>1, <1>3, <1>4 DEF DataOf

\* Storing bytes at the put position patches the file.
LEMMA DataPatched ==
  ASSUME NEW d, DeviceOK(d), NEW bytes \in Seq(Int), NEW e, Appended(d, bytes, e)
  PROVE  DataOf(e) = File!Patched(DataOf(d), d.put - Start, bytes)
<1>1. PICK content \in Seq(Int), put \in Nat, after \in Seq(Int), new \in Nat, m \in Nat :
        content = d.content /\ put = d.put /\ after = e.content /\ new = e.put /\ m = Len(bytes)
  BY DEF Appended, DeviceOK
<1>2. Start \in Nat /\ Start <= put /\ put <= Len(content) /\ new = put + m /\ new <= Len(after)
  BY <1>1, OutputAssumption DEF Appended, DeviceOK
<1>3. /\ Len(after) = IF new > Len(content) THEN new ELSE Len(content)
      /\ \A k \in 1 .. Len(after) : after[k] = IF k \in put + 1 .. new THEN bytes[k - put] ELSE content[k]
  BY <1>1 DEF Appended
<1>4. PICK old \in Seq(Int), n \in Nat :
        old = DataOf(d) /\ n = Len(content) - Start /\ Len(old) = n /\ \A i \in 1 .. n : old[i] = content[Start + i]
  BY <1>1, DataBytes
<1>5. PICK data \in Seq(Int), l \in Nat :
        data = DataOf(e) /\ l = Len(after) - Start /\ Len(data) = l /\ \A i \in 1 .. l : data[i] = after[Start + i]
  BY <1>1, DataBytes DEF Appended
<1>6. PICK p \in Nat : p = put - Start
  BY <1>2
<1>7. l = IF p + m > n THEN p + m ELSE n
  <2>1. PICK a \in Nat, c \in Nat : a = Len(after) /\ c = Len(content)
    OBVIOUS
  <2>2. a = IF new > c THEN new ELSE c
    BY <1>3, <2>1
  <2>3. n = c - Start /\ l = a - Start
    BY <1>4, <1>5, <2>1
  <2> QED  BY <1>2, <1>6, <2>2, <2>3
<1>8. ASSUME NEW i \in 1 .. l
      PROVE  data[i] = IF i \in p + 1 .. p + m THEN bytes[i - p] ELSE old[i]
  <2>1. PICK k \in Nat : k = Start + i
    BY <1>2
  <2>2. k \in 1 .. Len(after)
    <3>1. PICK a \in Nat : a = Len(after)
      OBVIOUS
    <3>2. l = a - Start /\ Start \in Nat
      BY <1>2, <1>5, <3>1
    <3>3. k \in 1 .. a
      BY <2>1, <3>2
    <3> QED  BY <3>1, <3>3
  <2>3. data[i] = IF k \in put + 1 .. new THEN bytes[k - put] ELSE content[k]
    BY <1>3, <1>5, <2>1, <2>2
  <2>4. k \in put + 1 .. new <=> i \in p + 1 .. p + m
    BY <1>2, <1>6, <2>1
  <2>5. k - put = i - p
    BY <1>2, <1>6, <2>1
  <2>6. CASE i \in p + 1 .. p + m
    BY <2>3, <2>4, <2>5, <2>6
  <2>7. CASE i \notin p + 1 .. p + m
    <3>1. i \in 1 .. n
      BY <1>2, <1>4, <1>6, <1>7, <2>7
    <3>2. old[i] = content[k]
      BY <1>4, <2>1, <3>1
    <3> QED  BY <2>3, <2>4, <2>7, <3>2
  <2> QED  BY <2>6, <2>7
<1>9. data = [i \in 1 .. l |-> IF i \in p + 1 .. p + m THEN bytes[i - p] ELSE old[i]]
  <2>1. data = [i \in 1 .. l |-> data[i]]
    BY <1>5
  <2> QED  BY <1>8, <2>1
<1>10. File!Patched(old, p, bytes) =
         [i \in 1 .. l |-> IF i \in p + 1 .. p + m THEN bytes[i - p] ELSE old[i]]
  BY <1>1, <1>4, <1>7 DEF File!Patched
<1> QED  BY <1>1, <1>4, <1>5, <1>6, <1>9, <1>10

\* Storing zeros at the end pads it.
LEMMA DataPadded ==
  ASSUME NEW d, DeviceOK(d), d.put = Len(d.content), NEW bytes \in Seq(Int),
         \A i \in 1 .. Len(bytes) : bytes[i] = 0, NEW e, Appended(d, bytes, e)
  PROVE  /\ DataOf(e) = File!Padded(DataOf(d), Len(DataOf(d)) + Len(bytes))
         /\ e.put = Len(e.content)
<1>1. PICK old \in Seq(Int), n \in Nat, m \in Nat :
        old = DataOf(d) /\ n = Len(old) /\ m = Len(bytes) /\ n = d.put - Start
  BY DataBytes
<1>2. PICK data : data = DataOf(e) /\ data = File!Patched(old, n, bytes)
  BY <1>1, DataPatched
<1>3. data = [i \in 1 .. n + m |-> IF i \in n + 1 .. n + m THEN bytes[i - n] ELSE old[i]]
  <2>1. (IF n + m > n THEN n + m ELSE n) = n + m
    OBVIOUS
  <2> QED  BY <1>1, <1>2, <2>1 DEF File!Patched
<1>4. PICK zeros \in Seq(Int) : zeros = [k \in 1 .. m |-> 0] /\ Len(zeros) = m /\ \A k \in 1 .. m : zeros[k] = 0
  <2>1. [k \in 1 .. m |-> 0] \in Seq(Int) /\ Len([k \in 1 .. m |-> 0]) = m
    OBVIOUS
  <2> QED  BY <2>1
<1>5. File!Padded(old, n + m) = old \o zeros
  <2>1. (IF n + m > Len(old) THEN n + m - Len(old) ELSE 0) = m
    BY <1>1
  <2>2. File!Padded(old, n + m) =
          old \o [k \in 1 .. (IF n + m > Len(old) THEN n + m - Len(old) ELSE 0) |-> 0]
    BY DEF File!Padded, File!Zero
  <2> QED  BY <1>4, <2>1, <2>2, Zenon
<1>6. PICK pad \in Seq(Int) : pad = old \o zeros
  <2>1. old \o zeros \in Seq(Int)
    OBVIOUS
  <2> QED  BY <2>1
<1>7. Len(pad) = n + m /\ \A i \in 1 .. n + m : pad[i] = IF i <= n THEN old[i] ELSE zeros[i - n]
  <2>1. Len(old) = n /\ Len(zeros) = m
    BY <1>1, <1>4
  <2>2. Len(pad) = n + m
    <3>1. Len(old \o zeros) = Len(old) + Len(zeros)
      OBVIOUS
    <3> QED  BY <1>6, <2>1, <3>1
  <2>3. \A i \in 1 .. Len(old) + Len(zeros) :
          (old \o zeros)[i] = IF i <= Len(old) THEN old[i] ELSE zeros[i - Len(old)]
    OBVIOUS
  <2> QED  BY <1>6, <2>1, <2>2, <2>3, Zenon
<1>8. ASSUME NEW i \in 1 .. n + m
      PROVE  pad[i] = IF i \in n + 1 .. n + m THEN bytes[i - n] ELSE old[i]
  <2>1. CASE i <= n
    <3>1. i \notin n + 1 .. n + m
      BY <2>1
    <3> QED  BY <1>7, <2>1, <3>1
  <2>2. CASE ~(i <= n)
    <3>1. i \in n + 1 .. n + m /\ i - n \in 1 .. m
      BY <2>2
    <3>2. zeros[i - n] = 0 /\ bytes[i - n] = 0
      BY <1>1, <1>4, <3>1
    <3> QED  BY <1>7, <2>2, <3>1, <3>2
  <2> QED  BY <2>1, <2>2
<1>9. pad = data
  <2>1. pad = [i \in 1 .. n + m |-> pad[i]]
    BY <1>7
  <2> QED  BY <1>3, <1>8, <2>1
<1>10. e.put = Len(e.content)
  <2>1. PICK c \in Nat, new \in Nat : c = Len(d.content) /\ new = e.put /\ new = c + m
    BY <1>1 DEF Appended, DeviceOK
  <2>2. Len(e.content) = IF new > c THEN new ELSE c
    BY <2>1 DEF Appended
  <2> QED  BY <2>1, <2>2
<1> QED  BY <1>1, <1>2, <1>5, <1>6, <1>9, <1>10

\* A write callback is a write to the file: all of it, or a failed part.
LEMMA AdapterWrites ==
  ASSUME Addressable(dev), NEW bytes \in Seq(Int), NEW o \in WriteCall(dev, bytes), dev' = o.dev,
         ret' = [call |-> File!WriteCall(bytes), ok |-> o.ok, position |-> o.position]
  PROVE  File!Write(bytes)
<1>1. PICK s \in Sputn(dev, bytes) : o = Outcome(s.dev, s.ok, 0)
  BY DEF WriteCall
<1>2. o.dev = s.dev /\ o.ok = s.ok /\ o.position = 0
  BY <1>1 DEF Outcome
<1>3. PICK k \in 0 .. Len(bytes) : Appended(dev, SubSeq(bytes, 1, k), s.dev) /\ (s.ok => k = Len(bytes))
  BY SputnAppends
<1>4. s.ok \in BOOLEAN
  BY SputnAppends
<1>5. PICK t \in Seq(Int) : t = SubSeq(bytes, 1, k) /\ Len(t) = k
  <2>1. SubSeq(bytes, 1, k) \in Seq(Int) /\ Len(SubSeq(bytes, 1, k)) = k
    OBVIOUS
  <2> QED  BY <2>1
<1>6. DeviceOK(dev)
  BY DEF Addressable
<1>7. DataOf(dev') = File!Patched(DataOf(dev), dev.put - Start, t)
  BY <1>2, <1>3, <1>5, <1>6, DataPatched
<1>8. dev'.put - Start = dev.put - Start + k
  <2>1. dev'.put = dev.put + k
    BY <1>2, <1>3, <1>5 DEF Appended
  <2>2. dev.put \in Nat /\ Start \in Nat
    BY <1>6, OutputAssumption DEF DeviceOK
  <2> QED  BY <2>1, <2>2
<1>9. \/ ret' = File!Failure(File!WriteCall(bytes))
      \/ k = Len(bytes) /\ ret' = File!Answer(File!WriteCall(bytes), 0)
  <2>1. CASE s.ok = TRUE
    BY <1>2, <1>3, <2>1 DEF File!Answer
  <2>2. CASE s.ok = FALSE
    BY <1>2, <2>2 DEF File!Failure
  <2> QED  BY <1>4, <2>1, <2>2
<1> QED  BY <1>5, <1>7, <1>8, <1>9 DEF File!Write, DataOf

\* Padding a file to less than it has leaves it alone.
LEMMA NothingPadded ==
  ASSUME NEW data \in Seq(Int), NEW n \in 0 .. Len(data)
  PROVE  File!Padded(data, n) = data
<1>1. (IF n > Len(data) THEN n - Len(data) ELSE 0) = 0
  OBVIOUS
<1>2. File!Padded(data, n) = data \o [k \in 1 .. (IF n > Len(data) THEN n - Len(data) ELSE 0) |-> 0]
  BY DEF File!Padded, File!Zero
<1>3. [k \in 1 .. 0 |-> 0] = <<>>
  OBVIOUS
<1>4. data \o <<>> = data
  OBVIOUS
<1> QED  BY <1>1, <1>2, <1>3, <1>4, Zenon

\* A seek callback is a seek of the file, or a failed one.
LEMMA AdapterSeeks ==
  ASSUME Addressable(dev), NEW origin \in Origins, NEW offset \in Offsets(origin),
         NEW o \in SeekCall(dev, offset, origin), dev' = o.dev,
         ret' = [call |-> File!SeekCall(offset, origin), ok |-> o.ok, position |-> o.position]
  PROVE  File!Seek(offset, origin) \/ File!SeekFails(offset, origin)
<1>1. PICK at \in Nat, last \in Nat, sum \in Int :
        /\ at = dev.put - Start /\ last = Len(dev.content) - Start /\ at <= last
        /\ sum = SeekBase(origin, at, last) + offset
  BY SeekNumbers
<1>2. SeekWent(dev, last, sum, o)
  BY <1>1, SeekOutcomes
<1>3. DeviceOK(dev)
  BY DEF Addressable
<1>4. PICK data \in Seq(Int) : data = DataOf(dev) /\ Len(data) = last
  BY <1>1, <1>3, DataBytes
<1>5. PICK after \in Seq(Int) : after = DataOf(dev') /\ Len(after) = Len(dev'.content) - Start
  <2>1. Addressable(o.dev)
    BY SeekReaches DEF Reaches
  <2> QED  BY <2>1, DataBytes DEF Addressable
<1>6. PICK call : call = File!SeekCall(offset, origin)
  OBVIOUS
<1>7. File!SeekBase(origin, at, last) + offset = sum
  BY <1>1 DEF SeekBase, File!SeekBase
<1>8. File!Padded(data, last) = data
  BY <1>4, NothingPadded
<1>9. SUFFICES \/ /\ sum \in 0 .. MaxOffset
                  /\ after = File!Padded(data, sum)
                  /\ dev'.put - Start = sum
                  /\ ret' = File!Answer(call, sum)
               \/ /\ \E n \in last .. (IF sum > last THEN sum ELSE last) : after = File!Padded(data, n)
                  /\ dev'.put - Start \in {at, Len(after)}
                  /\ ret' = File!Failure(call)
  <2>1. CASE /\ sum \in 0 .. MaxOffset
             /\ after = File!Padded(data, sum)
             /\ dev'.put - Start = sum
             /\ ret' = File!Answer(call, sum)
    BY <1>1, <1>4, <1>5, <1>6, <1>7, <2>1 DEF File!Seek, DataOf
  <2>2. CASE /\ \E n \in last .. (IF sum > last THEN sum ELSE last) : after = File!Padded(data, n)
             /\ dev'.put - Start \in {at, Len(after)}
             /\ ret' = File!Failure(call)
    BY <1>1, <1>4, <1>5, <1>6, <1>7, <2>2 DEF File!SeekFails, DataOf
  <2> QED  BY <1>9, <2>1, <2>2
<1>10. last <= MaxOffset /\ MaxOffset \in Nat
  <2>1. PICK n \in Nat : n = Len(dev.content) /\ n <= MaxOffset
    BY DEF Addressable, DeviceOK
  <2> QED  BY <1>1, <2>1, OutputAssumption, MaxOffsetAssumption
<1>11. CASE o.ok = FALSE /\ o.position = 0 /\ o.dev \in {dev, AtEnd(dev)}
  <2>1. dev'.content = dev.content /\ dev'.put \in {dev.put, Len(dev.content)}
    BY <1>3, <1>11, AtEndKeepsDevice
  <2>2. after = data /\ Len(after) = last
    BY <1>4, <1>5, <2>1 DEF DataOf
  <2>3. dev'.put - Start \in {at, Len(after)}
    BY <1>1, <2>1, <2>2
  <2>4. ret' = File!Failure(call)
    BY <1>6, <1>11 DEF File!Failure
  <2>5. last \in last .. (IF sum > last THEN sum ELSE last)
    OBVIOUS
  <2> QED  BY <1>8, <2>2, <2>3, <2>4, <2>5
<1>12. ASSUME sum > last, sum <= MaxOffset,
              NEW s \in Sputn(AtEnd(dev), [k \in 1 .. sum - last |-> Zero]),
              o.dev = s.dev, o.ok = s.ok, o.position = IF s.ok THEN sum ELSE 0
       PROVE  \/ /\ sum \in 0 .. MaxOffset
                 /\ after = File!Padded(data, sum)
                 /\ dev'.put - Start = sum
                 /\ ret' = File!Answer(call, sum)
              \/ /\ \E n \in last .. (IF sum > last THEN sum ELSE last) : after = File!Padded(data, n)
                 /\ dev'.put - Start \in {at, Len(after)}
                 /\ ret' = File!Failure(call)
  <2>1. PICK gap \in Nat : gap = sum - last
    BY <1>12
  <2>2. PICK zeros \in Seq(Int) : zeros = [k \in 1 .. gap |-> Zero] /\ Len(zeros) = gap /\ \A k \in 1 .. gap : zeros[k] = 0
    BY ZerosSeq
  <2>3. s \in Sputn(AtEnd(dev), zeros)
    BY <2>1, <2>2
  <2>4. Addressable(AtEnd(dev)) /\ AtEnd(dev).content = dev.content /\ AtEnd(dev).put = Len(dev.content)
    BY <1>3, AtEndReaches, AtEndKeepsDevice
  <2>5. s.ok \in BOOLEAN
    BY <2>3, <2>4, SputnAppends
  <2>6. PICK m \in 0 .. Len(zeros) : Appended(AtEnd(dev), SubSeq(zeros, 1, m), s.dev) /\ (s.ok => m = Len(zeros))
    BY <2>3, <2>4, SputnAppends
  <2>7. PICK t \in Seq(Int) : t = SubSeq(zeros, 1, m) /\ Len(t) = m /\ \A i \in 1 .. m : t[i] = 0
    <3>1. SubSeq(zeros, 1, m) \in Seq(Int) /\ Len(SubSeq(zeros, 1, m)) = m
      OBVIOUS
    <3>2. \A i \in 1 .. m : SubSeq(zeros, 1, m)[i] = zeros[i] /\ i \in 1 .. gap
      BY <2>2
    <3> QED  BY <2>2, <3>1, <3>2
  <2>8. DataOf(AtEnd(dev)) = data
    BY <1>4, <2>4 DEF DataOf
  <2>9. /\ DataOf(s.dev) = File!Padded(DataOf(AtEnd(dev)), Len(DataOf(AtEnd(dev))) + Len(t))
        /\ s.dev.put = Len(s.dev.content)
    <3>1. DeviceOK(AtEnd(dev)) /\ AtEnd(dev).put = Len(AtEnd(dev).content)
      BY <2>4 DEF Addressable
    <3>2. Appended(AtEnd(dev), t, s.dev)
      BY <2>6, <2>7
    <3>3. \A i \in 1 .. Len(t) : t[i] = 0
      BY <2>7
    <3> QED  BY <3>1, <3>2, <3>3, DataPadded, Zenon
  <2>10. after = File!Padded(data, last + m)
    BY <1>4, <1>5, <1>12, <2>7, <2>8, <2>9
  <2>11. dev'.put - Start = Len(after)
    BY <1>5, <1>12, <2>9
  <2>12. dev'.put - Start = last + m
    <3>1. dev'.put = Len(dev.content) + m
      BY <1>12, <2>4, <2>6, <2>7 DEF Appended
    <3>2. PICK n \in Nat : n = Len(dev.content)
      BY <1>3 DEF DeviceOK
    <3>3. last = n - Start /\ dev'.put = n + m /\ Start \in Nat
      BY <1>1, <3>1, <3>2, OutputAssumption
    <3> QED  BY <3>3
  <2>13. CASE s.ok = TRUE
    <3>1. m = gap
      BY <2>2, <2>6, <2>13
    <3>2. last + m = sum
      BY <2>1, <3>1
    <3>3. ret' = File!Answer(call, sum)
      BY <1>6, <1>12, <2>13 DEF File!Answer
    <3>4. sum \in 0 .. MaxOffset
      BY <1>12
    <3> QED  BY <2>10, <2>12, <3>2, <3>3, <3>4
  <2>14. CASE s.ok = FALSE
    <3>1. last + m \in last .. sum
      BY <2>1, <2>2, <2>6
    <3>2. (IF sum > last THEN sum ELSE last) = sum
      BY <1>12
    <3>3. ret' = File!Failure(call)
      BY <1>6, <1>12, <2>14 DEF File!Failure
    <3> QED  BY <2>10, <2>11, <3>1, <3>2, <3>3
  <2> QED  BY <2>5, <2>13, <2>14
<1>13. CASE sum \in 0 .. last /\ o.ok = TRUE /\ o.position = sum /\ o.dev = [dev EXCEPT !.put = Start + sum]
  <2>1. dev'.content = dev.content /\ dev'.put = Start + sum
    BY <1>13 DEF Addressable, DeviceOK
  <2>2. after = data
    BY <1>4, <1>5, <2>1 DEF DataOf
  <2>3. dev'.put - Start = sum
    BY <1>13, <2>1, OutputAssumption
  <2>4. ret' = File!Answer(call, sum)
    BY <1>6, <1>13 DEF File!Answer
  <2>5. sum \in 0 .. MaxOffset
    BY <1>10, <1>13
  <2>6. File!Padded(data, sum) = data
    BY <1>4, <1>13, NothingPadded
  <2> QED  BY <2>2, <2>3, <2>4, <2>5, <2>6
<1>14. \/ o.ok = FALSE /\ o.position = 0 /\ o.dev \in {dev, AtEnd(dev)}
       \/ /\ sum > last /\ sum <= MaxOffset
          /\ \E s \in Sputn(AtEnd(dev), [k \in 1 .. sum - last |-> Zero]) :
               o.dev = s.dev /\ o.ok = s.ok /\ o.position = IF s.ok THEN sum ELSE 0
       \/ sum \in 0 .. last /\ o.ok = TRUE /\ o.position = sum /\ o.dev = [dev EXCEPT !.put = Start + sum]
  BY <1>2, Zenon DEF SeekWent
<1> QED  BY <1>11, <1>12, <1>13, <1>14, Zenon

\* The adapter begins as the file does.
LEMMA FileInit ==
  ASSUME AdapterInit
  PROVE  File!Init
<1>1. PICK n \in Sizes, room \in Rooms : dev = [content |-> [k \in 1 .. n |-> 1], put |-> Start, room |-> room]
  BY DEF AdapterInit, NewDevice, Old
<1>2. n \in Nat /\ Start <= n /\ Start \in Nat
  BY OutputAssumption, MaxOffsetAssumption
<1>3. PICK content \in Seq(Int) : content = [k \in 1 .. n |-> 1] /\ Len(content) = n
  <2>1. [k \in 1 .. n |-> 1] \in Seq(Int) /\ Len([k \in 1 .. n |-> 1]) = n
    BY <1>2
  <2> QED  BY <2>1
<1>4. DeviceOK(dev) /\ dev.content = content
  BY <1>1, <1>3, AdapterInitInv DEF AdapterInv, Addressable
<1>5. PICK m \in Nat, data \in Seq(Int) :
        m = n - Start /\ data = DataOf(dev) /\ Len(data) = m /\ \A i \in 1 .. m : data[i] = content[Start + i]
  <2>1. /\ DataOf(dev) \in Seq(Int) /\ Len(DataOf(dev)) = Len(dev.content) - Start
        /\ Len(dev.content) - Start \in Nat
        /\ \A i \in 1 .. Len(dev.content) - Start : DataOf(dev)[i] = dev.content[Start + i]
    BY <1>4, DataBytes
  <2>2. Len(dev.content) = n
    BY <1>3, <1>4
  <2> QED  BY <1>4, <2>1, <2>2, Zenon
<1>6. \A i \in 1 .. m : data[i] \in {1}
  <2>1. \A i \in 1 .. m : Start + i \in 1 .. n
    BY <1>2, <1>5
  <2>2. \A k \in 1 .. n : content[k] = 1
    BY <1>3
  <2> QED  BY <1>5, <2>1, <2>2
<1>7. data \in Seq({1})
  <2>1. data \in [1 .. m -> {1}]
    BY <1>5, <1>6
  <2> QED  BY <2>1
<1>8. dev.put - Start = 0
  BY <1>1, <1>2
<1>9. ret = File!Answer(File!FlushCall, 0)
  BY DEF AdapterInit, File!Answer
<1> QED  BY <1>5, <1>7, <1>8, <1>9 DEF File!Init, Old, DataOf

\* Every call on the adapter is one on the file.
LEMMA FileNext ==
  ASSUME AdapterInv, [AdapterNext]_adapterVars
  PROVE  [File!Next]_(File!vars)
<1>1. CASE UNCHANGED adapterVars
  BY <1>1 DEF adapterVars, File!vars
<1>2. CASE AdapterNext
  <2>1. Addressable(dev)
    BY DEF AdapterInv
  <2>2. ASSUME NEW bytes \in Writes, NEW o \in WriteCall(dev, bytes), dev' = o.dev,
               ret' = [call |-> File!WriteCall(bytes), ok |-> o.ok, position |-> o.position]
        PROVE  File!Next
    <3>1. File!Write(bytes)
      BY <2>1, <2>2, AdapterWrites, WritesAssumption
    <3> QED  BY <3>1 DEF File!Next
  <2>3. ASSUME NEW origin \in Origins, NEW offset \in Offsets(origin), NEW o \in SeekCall(dev, offset, origin),
               dev' = o.dev,
               ret' = [call |-> File!SeekCall(offset, origin), ok |-> o.ok, position |-> o.position]
        PROVE  File!Next
    <3>1. File!Seek(offset, origin) \/ File!SeekFails(offset, origin)
      BY <2>1, <2>3, AdapterSeeks
    <3>2. origin \in File!Origins /\ offset \in File!Offsets(origin)
      BY DEF Origins, Offsets, File!Origins, File!Offsets
    <3> QED  BY <3>1, <3>2 DEF File!Next
  <2>4. ASSUME dev' = dev, NEW ok \in BOOLEAN,
               ret' = [call |-> File!FlushCall, ok |-> ok, position |-> 0]
        PROVE  File!Next
    <3>1. ret' \in {File!Answer(File!FlushCall, 0), File!Failure(File!FlushCall)}
      <4>1. CASE ok = TRUE
        BY <2>4, <4>1 DEF File!Answer
      <4>2. CASE ok = FALSE
        BY <2>4, <4>2 DEF File!Failure
      <4> QED  BY <4>1, <4>2
    <3> QED  BY <2>4, <3>1 DEF File!Next, File!Flush
  <2> QED  BY <1>2, <2>2, <2>3, <2>4, AdapterStep, Zenon
<1> QED  BY <1>1, <1>2

\* The adapter over any stream buffer is a writable file: a call that succeeds
\* does what it says, one that fails has done a part of it and nothing else.
THEOREM FileRefinement ==
  AdapterSpec => ImplementsFile
<1>1. AdapterInv /\ [AdapterNext]_adapterVars => AdapterInv'
  BY AdapterNextInv
<1>2. AdapterInv /\ [AdapterNext]_adapterVars => [File!Next]_(File!vars)
  BY FileNext
<1> QED  BY <1>1, <1>2, AdapterInitInv, FileInit, PTL DEF AdapterSpec, ImplementsFile, File!Spec
=============================================================================
