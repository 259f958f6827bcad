---------------------------- MODULE OutputCalls -----------------------------
(***************************************************************************)
(* The output adapter of include/lasrs/stream.hpp: Write + Seek for las-rs *)
(* over the buffer of a std::ostream that stood at Start when the adapter  *)
(* was made, called through the callbacks wrapped by rust/src/stream.rs.   *)
(*                                                                         *)
(* The state of the buffer is a record, and each callback is the set of    *)
(* outcomes it may have from a given buffer, so that the buffered writer   *)
(* can call it in the middle of its own steps (module WriterSession).      *)
(* The buffer is external: it takes bytes up to the room of its device     *)
(* and, with Faulty, may throw after having taken some of them.  As for    *)
(* input, asking for the end of the buffer moves it there.                 *)
(***************************************************************************)
EXTENDS StreamSeek, Sequences

CONSTANTS Start,   \* start_, where the stream stood
          Sizes,   \* sizes the stream may have when the adapter is made
          Rooms,   \* sizes the device may have
          Faulty   \* may the stream buffer fail or throw?

ASSUME OutputAssumption ==
  /\ Start \in Nat
  /\ Sizes \subseteq Start .. MaxOffset
  /\ Rooms \subseteq Start .. MaxOffset
  /\ Faulty \in BOOLEAN

Zero == 0
Old == 1  \* a byte that was in the stream when the adapter was made

VARIABLE dev  \* the stream buffer of the adapter

-----------------------------------------------------------------------------
(* The stream buffer: content, put position, room (external) *)

NewDevice(size, room) ==
  [content |-> [k \in 1 .. size |-> Old], put |-> Start, room |-> room]

AtEnd(d) == [d EXCEPT !.put = Len(d.content)]

\* The device once bytes were stored at its put position.
Stored(d, bytes) ==
  LET new == d.put + Len(bytes)
      size == IF new > Len(d.content) THEN new ELSE Len(d.content)
  IN  [d EXCEPT !.put = new,
                !.content = [k \in 1 .. size |-> IF k \in d.put + 1 .. new
                                                 THEN bytes[k - d.put]
                                                 ELSE d.content[k]]]

\* sputn stores what there is room for and answers whether it was all; or throws.
Sputn(d, bytes) ==
  LET room == IF d.put < d.room THEN d.room - d.put ELSE 0
      fits == IF Len(bytes) < room THEN Len(bytes) ELSE room
      after(k) == Stored(d, SubSeq(bytes, 1, k))
  IN  {[dev |-> after(fits), ok |-> fits = Len(bytes)]}
        \cup {[dev |-> after(k), ok |-> FALSE] : k \in IF Faulty THEN 0 .. fits ELSE {}}

-----------------------------------------------------------------------------
(* The callbacks: sets of outcomes [dev, ok, position] *)

Outcome(d, ok, position) == [dev |-> d, ok |-> ok, position |-> position]
Failed(d) == Outcome(d, FALSE, 0)

WriteCall_IgnoresShort(d, bytes) == {Outcome(o.dev, TRUE, 0) : o \in Sputn(d, bytes)}
WriteCall(d, bytes) == {Outcome(o.dev, o.ok, 0) : o \in Sputn(d, bytes)}

\* The gap is filled from the end, where the queries left the buffer.
ZeroFilled_FromPut(d, gap) == Sputn(d, [k \in 1 .. gap |-> Zero])
ZeroFilled(d, gap) == Sputn(AtEnd(d), [k \in 1 .. gap |-> Zero])

\* seek_with refuses an offset that is no i64; then the two queries, the
\* target, and either the gap or pubseekpos.  A failing query or pubseekpos
\* leaves the buffer where it was or at its end.
SeekCall_Absolute(d, offset, origin) ==
  LET target == SeekTarget(offset, origin, d.put, Len(d.content))
  IN  IF target = None \/ target > Len(d.content)
      THEN {Failed(AtEnd(d))}
      ELSE {Outcome([d EXCEPT !.put = target], TRUE, target)}

SeekCall(d, offset, origin) ==
  LET last == Len(d.content) - Start
      target == SeekTarget(offset, origin, d.put - Start, last)
  IN  IF offset > MaxOffset THEN {Failed(d)}
      ELSE (IF Faulty THEN {Failed(d), Failed(AtEnd(d))} ELSE {})
             \cup (IF target = None THEN {Failed(AtEnd(d))}
                   ELSE IF target > last
                   THEN {Outcome(o.dev, o.ok, IF o.ok THEN target ELSE 0) :
                           o \in ZeroFilled(d, target - last)}
                   ELSE {Outcome([d EXCEPT !.put = Start + target], TRUE, target)})

FlushCall(d) == {Outcome(d, TRUE, 0)} \cup (IF Faulty THEN {Failed(d)} ELSE {})
=============================================================================
