--------------------------- MODULE HeaderBuilder ----------------------------
(***************************************************************************)
(* Builder of include/lasrs/header.hpp: a struct of plain C++ fields that  *)
(* the caller edits, and base_, the Rust builder it was made from.  base_  *)
(* is shared between copies and never changes, so it is a value here.  A   *)
(* call hands the fields over as a C struct, and Rust lays them over a     *)
(* clone of base_.                                                         *)
(***************************************************************************)
EXTENDS HeaderValues

CONSTANTS Builders

VARIABLES cpp,     \* per variable the struct and its base_, or None before it is made
          header,  \* the caller's header, read from a file or made by a builder
          answer   \* whether the last call succeeded

vars == <<cpp, header, answer>>

Init ==
  /\ cpp = [b \in Builders |-> None]
  /\ header \in Headers
  /\ answer = TRUE

-----------------------------------------------------------------------------
(* Crossing the boundary *)

\* An optional date is a flag and a date, which is all zeros without one: a
\* month and a day no calendar has.
DateToC(date) == [has_date |-> date # None, date |-> IF date = None THEN "noday" ELSE date]

\* lasrs_builder_fields and assign, into a struct that has no date yet.
Assigned(rust) ==
  LET c == DateToC(rust.fields.date)
  IN  [rust.fields EXCEPT !.date = IF c.has_date THEN c.date ELSE None]

to_c(fields) ==
  [version |-> fields.version, point_format |-> fields.point_format,
   date |-> DateToC(fields.date)]

\* The date is the only field that Rust may refuse to take over.
TakenOver(c) == c.date.has_date => c.date.date # "noday"

\* builder_from_ffi: the fields over base, or over a default builder.
Overlay(base, c) ==
  Full([version |-> c.version, point_format |-> c.point_format,
        date |-> IF c.date.has_date THEN c.date.date ELSE None],
       IF base = None THEN 0 ELSE base.hidden)

-----------------------------------------------------------------------------
(* Operations *)

Become(b, struct) ==
  /\ cpp' = [cpp EXCEPT ![b] = struct]
  /\ answer' = TRUE
  /\ UNCHANGED header

\* Builder(Version): the Rust builder is only there to fill the fields.
NewBuilder(b, v) ==
  Become(b, [fields |-> Assigned(Full(DefaultFields(v), 0)), base |-> None])

BuilderOf_NoBase(b) == Become(b, [fields |-> Assigned(header), base |-> None])

\* Builder(const Header &) keeps a clone of the header, as base_.
BuilderOf(b) == Become(b, [fields |-> Assigned(header), base |-> header])

\* The compiler's copy, which shares base_.
CopyBuilder(b, c) == cpp[c] # None /\ Become(b, cpp[c])

\* The caller assigns to one of the members.
Edit(b) ==
  /\ cpp[b] # None
  /\ \/ \E v \in VersionsTried : Become(b, [cpp[b] EXCEPT !.fields.version = v])
     \/ \E f \in FormatsTried : Become(b, [cpp[b] EXCEPT !.fields.point_format = f])
     \/ \E d \in Dates : Become(b, [cpp[b] EXCEPT !.fields.date = d])

into_header(b) ==
  LET c == to_c(cpp[b].fields)
      rust == Overlay(cpp[b].base, c)
  IN  /\ cpp[b] # None
      /\ IF TakenOver(c) /\ Accepted(rust.fields) THEN header' = rust /\ answer' = TRUE
         ELSE UNCHANGED header /\ answer' = FALSE
      /\ UNCHANGED cpp

minimum_supported_version_OfBase(b) ==
  IF cpp[b].base # None THEN Minimum(cpp[b].base.fields)
  ELSE Minimum(Overlay(None, to_c(cpp[b].fields)).fields)

\* Asks about the fields as they are now; it throws for a date that is not taken over.
minimum_supported_version(b) == Minimum(Overlay(cpp[b].base, to_c(cpp[b].fields)).fields)

\* Header::add_point and Header::clear change only what builders do not show.
ChangeHeader(points) ==
  /\ header' = [header EXCEPT !.hidden = points]
  /\ answer' = TRUE
  /\ UNCHANGED cpp

Next ==
  \/ \E b \in Builders :
       \/ \E v \in VersionsTried : NewBuilder(b, v)
       \/ BuilderOf(b)
       \/ \E c \in Builders : CopyBuilder(b, c)
       \/ Edit(b)
       \/ into_header(b)
  \/ \E points \in {0, header.hidden + 1} \cap (0 .. MaxPoints) : ChangeHeader(points)

Spec == Init /\ [][Next]_vars

-----------------------------------------------------------------------------
(* Properties *)

\* A caller that sets version to minimum_supported_version() gets its header,
\* and one that gets none has a format that no version supports.
MinimumSuffices ==
  \A b \in Builders : cpp[b] # None /\ TakenOver(to_c(cpp[b].fields)) =>
    \A v \in minimum_supported_version(b) :
      IF v # None THEN Accepted([cpp[b].fields EXCEPT !.version = v])
      ELSE \A w \in VersionsTried : ~supports_point_format(w, cpp[b].fields.point_format)

Las == INSTANCE LasBuilder WITH
  builder <- [b \in Builders |->
    IF cpp[b] = None THEN None
    ELSE Full(cpp[b].fields, IF cpp[b].base = None THEN 0 ELSE cpp[b].base.hidden)]

\* Split between C++ fields and a shared Rust builder, a Builder still is the
\* one value las-rs has: copies are independent, edits reach the header, the
\* hidden fields come from the header it was made from as it was then, a
\* refused call changes nothing, and Builder(header).into_header() gives the
\* header back (tests/test_header.cpp, "Builder round trips a header").
ImplementsLasBuilder == Las!Spec
=============================================================================
