--------------------------- MODULE PointDataSlab ----------------------------
(***************************************************************************)
(* The byte slab of a PointData: records of one length, in Rust memory     *)
(* that resize_for hands to C++ as a span to be written.  Sizes are usize  *)
(* on one side and size_t on the other; Rust keeps at most isize::MAX      *)
(* bytes in one piece.  Only sizes matter here: a slab is its number of    *)
(* bytes.                                                                  *)
(***************************************************************************)
EXTENDS Integers

CONSTANTS Bits,        \* width of usize and size_t
          RecordLens   \* the lengths of the point formats, extra bytes included

USize == 2 ^ Bits
ISizeMax == 2 ^ (Bits - 1) - 1

VARIABLES record_len,  \* of the format, chosen when the PointData is built
          size,        \* bytes in the slab
          span,        \* bytes of the span resize_for returned last
          ret          \* the last call

vars == <<record_len, size, span, ret>>

\* las-rs: the number of points is the number of whole records.
Length == size \div record_len

Answer(op, n, ok) == [op |-> op, n |-> n, ok |-> ok]

\* PointDataBuilder::build and the other constructors start from nothing.
Init ==
  /\ record_len \in RecordLens
  /\ size = 0
  /\ span = 0
  /\ ret = Answer("build", 0, TRUE)

\* A PointData of the given bytes; las-rs refuses a partial record.
BuildFromBytes(n) ==
  LET whole == n % record_len = 0
  IN  /\ size' = IF whole THEN n ELSE size
      /\ ret' = Answer("build", n, whole)
      /\ UNCHANGED <<record_len, span>>

Fits_Wrapping(n) == (n * record_len) % USize <= ISizeMax

\* checked_mul and the conversion to isize.
Fits(n) == n * record_len < USize /\ n * record_len <= ISizeMax

\* The slab Rust returns is not null, also when it is empty; C++ makes a span
\* of it with a multiplication of its own.
ResizeFor(n) ==
  /\ IF Fits(n)
     THEN /\ size' = (n * record_len) % USize
          /\ span' = (n * record_len) % USize
     ELSE UNCHANGED <<size, span>>
  /\ ret' = Answer("resize", n, Fits(n))
  /\ UNCHANGED record_len

Next ==
  \/ \E n \in 0 .. ISizeMax : BuildFromBytes(n)
  \/ \E n \in 0 .. USize - 1 : ResizeFor(n)

Spec == Init /\ [][Next]_vars

-----------------------------------------------------------------------------
(* Properties *)

\* resize_for does what it says for every size_t, up to the largest: it makes
\* room for exactly n whole records and returns all of it, or it throws, only because
\* n points are more than Rust can hold, and leaves the points alone.
ResizesExactly ==
  [][ret'.op = "resize" =>
       IF ret'.ok THEN size' = ret'.n * record_len /\ span' = size'
                  ELSE size' = size /\ ret'.n * record_len > ISizeMax]_vars
=============================================================================
