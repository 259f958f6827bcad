--------------------------- MODULE PointExchange ----------------------------
(***************************************************************************)
(* Points on their way from C++ to Rust and back.  write_points, add_point *)
(* and build_from_points turn las::Point into LasrsPoint, a struct of      *)
(* plain fields, and put the extra bytes of all points one after the other *)
(* into a second buffer; points_from_ffi of rust/src/types.rs takes them   *)
(* apart again, one point after the other, and stops at the first point    *)
(* las-rs does not accept.  PointData::points and the columns bring them   *)
(* back.                                                                   *)
(*                                                                         *)
(* The fields that las-rs encodes are one number, `x', which stands for a  *)
(* coordinate: it is stored as a multiple of the transform's scale, so it  *)
(* may be rounded, or not fit.  The others are only copied; an optional    *)
(* field crosses as a flag and a number that is 0 without it.              *)
(***************************************************************************)
EXTENDS Integers, Sequences, SequencesExt

CONSTANTS Xs,   \* values of x
          Scale, MaxRaw,  \* of the transform, and the largest number a record has room for
          Numbers,    \* values of an optional field
          Optional,   \* the optional fields that are told apart
          Directions, Classes,  \* values of the enums, also cast ones
          Bytes, MaxExtra, MaxPoints

Absent == -1
Overlap == 12

Points == [x : Xs, scan_direction : Directions, classification : Classes,
           optional : [Optional -> Numbers \cup {Absent}],
           extra_bytes : UNION {[1 .. n -> Bytes] : n \in 0 .. MaxExtra}]

Formats == [has : SUBSET Optional, extra_bytes : 0 .. MaxExtra]

VARIABLES points,   \* the caller's points
          format,   \* the format of the PointData, once there is one
          c,        \* PointsForC
          rest,     \* the extra bytes Rust has not split off yet
          taken,    \* the points Rust has so far
          stored,   \* what the records of the PointData decode to
          status,   \* "given", "crossing", "taken", "stored", "refused" or "left"
          back,     \* what points() returned: no answer yet, or one
          columns   \* the same for the columns; an answer is <<column>>, or <<>> for nullopt

vars == <<points, format, c, rest, taken, stored, status, back, columns>>

Matches(p, f) ==
  /\ \A field \in Optional : (p.optional[field] # Absent) = (field \in f.has)
  /\ Len(p.extra_bytes) = f.extra_bytes

\* Before the call.
Given ==
  /\ format = [has |-> {}, extra_bytes |-> 0]
  /\ c = [points |-> <<>>, extra_bytes |-> <<>>]
  /\ rest = <<>> /\ taken = <<>> /\ stored = <<>> /\ back = {}
  /\ status = "given"
  /\ columns = [field \in Optional |-> {}]

Init ==
  /\ points \in UNION {[1 .. n -> Points] : n \in 0 .. MaxPoints}
  /\ Given

-----------------------------------------------------------------------------
(* C++ to Rust *)

ToC_FlagFromValue(p) ==
  [x |-> p.x, scan_direction |-> p.scan_direction, classification |-> p.classification,
   has |-> {field \in Optional : p.optional[field] > 0},
   optional |-> [field \in Optional |-> IF p.optional[field] = Absent THEN 0 ELSE p.optional[field]],
   extra_bytes_len |-> Len(p.extra_bytes)]

ToC(p) ==
  [x |-> p.x, scan_direction |-> p.scan_direction, classification |-> p.classification,
   has |-> {field \in Optional : p.optional[field] # Absent},
   optional |-> [field \in Optional |-> IF p.optional[field] = Absent THEN 0 ELSE p.optional[field]],
   extra_bytes_len |-> Len(p.extra_bytes)]

HandOver ==
  /\ status = "given"
  /\ c' = [points |-> [i \in DOMAIN points |-> ToC(points[i])],
           extra_bytes |-> FlattenSeq([i \in DOMAIN points |-> points[i].extra_bytes])]
  /\ rest' = c'.extra_bytes
  /\ status' = "crossing"
  /\ UNCHANGED <<points, format, taken, stored, back, columns>>

\* to_point: what Rust makes of a LasrsPoint and its extra bytes.
FromFfi(p, extra) ==
  [x |-> p.x, scan_direction |-> p.scan_direction, classification |-> p.classification,
   optional |-> [field \in Optional |-> IF field \in p.has THEN p.optional[field] ELSE Absent],
   extra_bytes |-> extra]

Accepted(p) == p.scan_direction \in {0, 1} /\ p.classification # Overlap

SplitAt_FirstLength(p) == c.points[1].extra_bytes_len

\* How many bytes split_at cuts off for a point; it panics past the end.
SplitAt(p) == p.extra_bytes_len

NextPoint ==
  LET p == c.points[Len(taken) + 1]
  IN  /\ status = "crossing"
      /\ Len(taken) < Len(c.points)
      /\ SplitAt(p) <= Len(rest)
      /\ \/ /\ Accepted(p)
            /\ taken' = Append(taken, FromFfi(p, SubSeq(rest, 1, SplitAt(p))))
            /\ rest' = SubSeq(rest, SplitAt(p) + 1, Len(rest))
            /\ UNCHANGED status
         \/ /\ ~Accepted(p)
            /\ status' = "refused"
            /\ UNCHANGED <<taken, rest>>
      /\ UNCHANGED <<points, format, c, stored, back, columns>>

AllTaken ==
  /\ status = "crossing"
  /\ Len(taken) = Len(c.points)
  /\ status' = "taken"
  /\ UNCHANGED <<points, format, c, rest, taken, stored, back, columns>>

\* las::Transform: a number as the nearest multiple of the scale, and back.
ToRaw(n) == (2 * n + Scale) \div (2 * Scale)
Direct(raw) == raw * Scale

Encodable(p) == ToRaw(p.x) \in 0 .. MaxRaw
Decoded(p) == [p EXCEPT !.x = Direct(ToRaw(p.x))]

\* build_from_points: las-rs encodes points that match the format, or refuses
\* all of them for a value that does not fit; what it does with points of other
\* formats is not followed.
Encode ==
  /\ status = "taken"
  /\ format' \in Formats
  /\ \/ /\ \E i \in DOMAIN taken : ~Matches(taken[i], format')
        /\ status' = "left"
        /\ UNCHANGED stored
     \/ /\ \A i \in DOMAIN taken : Matches(taken[i], format')
        /\ \E i \in DOMAIN taken : ~Encodable(taken[i])
        /\ status' = "refused"
        /\ UNCHANGED stored
     \/ /\ \A i \in DOMAIN taken : Matches(taken[i], format') /\ Encodable(taken[i])
        /\ status' = "stored"
        /\ stored' = [i \in DOMAIN taken |-> Decoded(taken[i])]
  /\ UNCHANGED <<points, c, rest, taken, back, columns>>

-----------------------------------------------------------------------------
(* Rust to C++ *)

FromC(p, extra) ==
  [x |-> p.x, scan_direction |-> p.scan_direction, classification |-> p.classification,
   optional |-> [field \in Optional |-> IF field \in p.has THEN p.optional[field] ELSE Absent],
   extra_bytes |-> extra]

\* Rust writes the extra bytes of each point into its slot of one buffer, and
\* C++ cuts the slots out again.
PointsBack ==
  LET slots == FlattenSeq([i \in DOMAIN stored |-> stored[i].extra_bytes])
      n == format.extra_bytes
  IN  /\ status = "stored"
      /\ back' = {[i \in DOMAIN stored |->
                     FromC(ToC(stored[i]), SubSeq(slots, (i - 1) * n + 1, i * n))]}
      /\ UNCHANGED <<points, format, c, rest, taken, stored, status, columns>>

Column_Zeros(field) ==
  <<[i \in DOMAIN stored |-> IF field \in format.has THEN stored[i].optional[field] ELSE 0]>>

\* optional_column: nothing when the format has no such field.
Column(field) ==
  IF field \in format.has THEN <<[i \in DOMAIN stored |-> stored[i].optional[field]]>> ELSE <<>>

ReadColumn(field) ==
  /\ status = "stored"
  /\ columns' = [columns EXCEPT ![field] = {Column(field)}]
  /\ UNCHANGED <<points, format, c, rest, taken, stored, status, back>>

-----------------------------------------------------------------------------
\* A call is sequential code; what the caller does with its result is up to it.
Call == HandOver \/ NextPoint \/ AllTaken \/ Encode

Next == Call \/ PointsBack \/ \E field \in Optional : ReadColumn(field)

Spec == Init /\ [][Next]_vars /\ WF_vars(Call)

-----------------------------------------------------------------------------
(* Properties *)

\* What a record can hold.
Representable == {Direct(raw) : raw \in 0 .. MaxRaw}

\* Rust has exactly the points it has been through, field by field, and the
\* bytes it has not split off are exactly those of the points to come: the two
\* buffers never run out of step (types.rs, points_from_ffi).
BuffersInStep ==
  status = "crossing" =>
    /\ taken = SubSeq(points, 1, Len(taken))
    /\ rest = FlattenSeq([i \in 1 .. Len(points) - Len(taken) |-> points[Len(taken) + i].extra_bytes])

\* What C++ reads back is what it handed over: points() returns as many points,
\* each with the caller's fields, absent ones absent and not 0, its own extra
\* bytes, and a coordinate that a record can hold, which is the caller's own if
\* that is one.  Each column holds its field of these points or is nullopt for
\* all of them (point_data.hpp).
ReadsBack ==
  status = "stored" =>
    /\ \A ps \in back :
         /\ DOMAIN ps = DOMAIN points
         /\ \A i \in DOMAIN points :
              /\ [ps[i] EXCEPT !.x = points[i].x] = points[i]
              /\ ps[i].x \in Representable
              /\ points[i].x \in Representable => ps[i] = points[i]
    /\ \A field \in Optional :
         columns[field] \subseteq {IF field \in format.has
                                  THEN <<[i \in DOMAIN points |-> points[i].optional[field]]>>
                                  ELSE <<>>}

\* Every call returns: the split never stops half way in a panic; vectors whose
\* points las-rs all has values for are taken as they are and, if they are of one
\* format, stored unless a coordinate does not fit; one point it has none for (a
\* cast scan direction, or class 12, overlap) refuses the whole vector
\* (types.rs, to_point; point_data.rs, build_from_points).
CallReturns ==
  LET valid == \A i \in DOMAIN points : /\ points[i].scan_direction \in {0, 1}
                                        /\ points[i].classification # Overlap
      fits == \A i \in DOMAIN points : Encodable(points[i])
  IN  <>(IF valid THEN taken = points /\ status \in {"left", IF fits THEN "stored" ELSE "refused"}
         ELSE status = "refused")
=============================================================================
