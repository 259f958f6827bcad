---------------------------- MODULE HeaderValues ----------------------------
(***************************************************************************)
(* las-rs headers and what las-rs accepts as one.  A header has fields     *)
(* that the Builder shows and a part that it hides: bounds and counts of   *)
(* points, here a number.  The date, the version and the format stand for  *)
(* all fields: an optional one, and two that must agree.                   *)
(***************************************************************************)
EXTENDS Versions

CONSTANTS VersionsTried, FormatsTried,
          MaxPoints,  \* bound on the hidden count
          None        \* an optional that is empty, a null pointer

Dates == {None, "day", "noday"}  \* "noday" is a year, month and day that no calendar has

Fields ==
  [version : VersionsTried, point_format : FormatsTried, date : Dates]

Full(fields, hidden) == [fields |-> fields, hidden |-> hidden]

\* las_rs: Builder::into_header.
Accepted(fields) ==
  /\ supports_point_format(fields.version, fields.point_format)
  /\ fields.date # "noday"

Headers == [fields : {f \in Fields : Accepted(f)}, hidden : 0 .. MaxPoints]

\* las_rs: Builder::default and Builder::from(Version).
DefaultFields(v) == [version |-> v, point_format |-> {}, date |-> "day"]

\* las_rs: Builder::minimum_supported_version, None when there is no such version.
Minimum(fields) ==
  LET accepting == {v \in VersionsTried : Accepted([fields EXCEPT !.version = v])}
  IN  IF accepting = {} THEN {None}
      ELSE {v \in accepting : \A w \in accepting : AtMost(v, w)}
=============================================================================
