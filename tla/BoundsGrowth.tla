---------------------------- MODULE BoundsGrowth ----------------------------
(***************************************************************************)
(* Bounds of include/lasrs/types.hpp: boxes that grow by points.           *)
(* Coordinates are doubles as far as their order goes: numbers, the two    *)
(* infinities an empty box starts from, and NaN, for which every           *)
(* comparison is false.                                                    *)
(***************************************************************************)
EXTENDS Integers, FiniteSets

CONSTANTS Axes,
          Boxes,
          Limit,      \* the numbers are 1 .. Limit, between the infinities
          MaxPoints,  \* bound on the different points a box grows by
          NaN

PosInf == Limit + 1
NegInf == 0
Coordinates == 1 .. Limit \cup {NaN}
Points == [Axes -> Coordinates]

VARIABLES bounds,  \* per box its min and max
          points   \* per box the points it has grown by

vars == <<bounds, points>>

\* operator< of doubles.
Less(a, b) == a # NaN /\ b # NaN /\ a < b

\* std::min and std::max, which keep their first argument unless the second is better.
StdMin(a, b) == IF Less(b, a) THEN b ELSE a
StdMax(a, b) == IF Less(a, b) THEN b ELSE a

Init ==
  /\ bounds = [b \in Boxes |-> [min |-> [a \in Axes |-> PosInf], max |-> [a \in Axes |-> NegInf]]]
  /\ points = [b \in Boxes |-> {}]

Grown_PointFirst(box, p) ==
  [min |-> [a \in Axes |-> StdMin(p[a], box.min[a])],
   max |-> [a \in Axes |-> StdMax(p[a], box.max[a])]]

Grown(box, p) ==
  [min |-> [a \in Axes |-> StdMin(box.min[a], p[a])],
   max |-> [a \in Axes |-> StdMax(box.max[a], p[a])]]

grow(b, p) ==
  /\ bounds' = [bounds EXCEPT ![b] = Grown(@, p)]
  /\ points' = [points EXCEPT ![b] = @ \cup {p}]

Next ==
  \E b \in Boxes, p \in Points :
    Cardinality(points[b] \cup {p}) <= MaxPoints /\ grow(b, p)

Spec == Init /\ [][Next]_vars

-----------------------------------------------------------------------------
(* Properties *)

\* The numbers that a box has been shown on an axis.
Shown(b, a) == {p[a] : p \in points[b]} \ {NaN}

\* In whatever order points come and whatever NaN they carry, a box is the
\* smallest one around their numbers: no NaN sticks, none is mistaken for a
\* number, and none makes the box forget (Bounds::grow).
SmallestBox ==
  \A b \in Boxes, a \in Axes :
    LET box == bounds[b]
    IN  IF Shown(b, a) = {} THEN box.min[a] = PosInf /\ box.max[a] = NegInf
        ELSE /\ {box.min[a], box.max[a]} \subseteq Shown(b, a)
             /\ \A c \in Shown(b, a) : box.min[a] <= c /\ c <= box.max[a]

=============================================================================
