------------------------------ MODULE StreamSeek ----------------------------
(***************************************************************************)
(* The seek calls that cross from las-rs into a C++ stream adapter, and    *)
(* seek_target of include/lasrs/stream.hpp, which both adapters use.       *)
(* Definitions named X_Y are faulty variants of X: replacing X by one of   *)
(* them must break a property.                                             *)
(***************************************************************************)
EXTENDS Integers

CONSTANT MaxOffset  \* std::numeric_limits<std::streamoff>::max(), an i64

ASSUME MaxOffsetAssumption == MaxOffset \in Nat

Origins == {"start", "current", "end"}

\* The arguments of std::io::SeekFrom: Start takes a u64, the others an i64.
Offsets(origin) ==
  IF origin = "start" THEN 0 .. 2 * MaxOffset + 1
                      ELSE -(MaxOffset + 1) .. MaxOffset

\* The position an offset counts from.
SeekBase(origin, current, end) ==
  IF origin = "current" THEN current ELSE IF origin = "end" THEN end ELSE 0

None == -1

SeekTarget_Overflows(offset, origin, current, end) ==
  LET sum == SeekBase(origin, current, end) + offset IN IF sum < 0 THEN None ELSE sum

\* Nothing when the target overflows std::streamoff or is negative.
SeekTarget(offset, origin, current, end) ==
  LET base == SeekBase(origin, current, end)
  IN  IF (offset > 0 /\ base > MaxOffset - offset) \/ base + offset < 0
      THEN None
      ELSE base + offset
=============================================================================
