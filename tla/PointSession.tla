---------------------------- MODULE PointSession ----------------------------
(***************************************************************************)
(* A caller that deals in points: it hands vectors of them to Rust and     *)
(* reads them back (PointExchange), resizes a PointData (PointDataSlab),   *)
(* grows Bounds by points (BoundsGrowth), walks through the keys of an     *)
(* octree (VoxelKeys) or reads the chunks of COPC files (CopcSession).     *)
(*                                                                         *)
(* As in HeaderSession these parts share no state, and a behaviour stays   *)
(* with one of them.                                                       *)
(***************************************************************************)
EXTENDS Integers, Sequences

CONSTANTS Xs, Scale, MaxRaw, Numbers, Optional, Directions, Classes,
          Bytes, MaxExtra, MaxPoints,                                          \* PointExchange
          USizeBits, RecordLens,                                               \* PointDataSlab
          Axes, Boxes, Limit, MaxGrowth, NaN,                                  \* BoundsGrowth
          Walkers, KeyBits, MaxDepth,                                          \* VoxelKeys
          Readers, Children, Offsets, MaxCount, MaxPage, None                  \* CopcSession

ASSUME PointAssumption ==
  /\ Xs \subseteq Nat /\ Scale \in Nat \ {0} /\ MaxRaw \in Nat
  /\ 0 \in Numbers /\ Numbers \subseteq Nat /\ MaxExtra \in Nat /\ MaxPoints \in Nat
  /\ USizeBits \in Nat \ {0}
  /\ RecordLens \subseteq 1 .. 2 ^ (USizeBits - 1) - 1
  /\ Limit \in Nat /\ NaN \notin Int
  /\ KeyBits \in Nat /\ MaxDepth \in 0 .. KeyBits - 1
  /\ None \notin Nat \cup Seq({"good", "bad"})

\* Powers of two are a matter of arithmetic, but one the provers do not know.
ASSUME Doubling == 2 ^ 0 = 1 /\ \A n \in 0 .. USizeBits + KeyBits : 2 ^ (n + 1) = 2 * 2 ^ n

VARIABLES part,                                                     \* the part this behaviour is about
          points, format, c, rest, taken, stored, status, back, columns,    \* PointExchange
          record_len, size, span, ret,                              \* PointDataSlab
          bounds, shown,                                            \* BoundsGrowth
          key, path,                                                \* VoxelKeys
          file, held, hand, out                                     \* CopcSession

Exchange == INSTANCE PointExchange
Slab == INSTANCE PointDataSlab WITH Bits <- USizeBits
Growth == INSTANCE BoundsGrowth WITH MaxPoints <- MaxGrowth, points <- shown
Octree == INSTANCE VoxelKeys WITH Bits <- KeyBits
Copc == INSTANCE CopcSession

exchangeVars == <<points, format, c, rest, taken, stored, status, back, columns>>
slabVars == <<record_len, size, span, ret>>
growthVars == <<bounds, shown>>
octreeVars == <<key, path>>
copcVars == <<file, held, hand, out>>
vars == <<part, exchangeVars, slabVars, growthVars, octreeVars, copcVars>>

Init ==
  /\ part \in {"exchange", "slab", "growth", "octree", "copc"}
  /\ IF part = "exchange" THEN Exchange!Init ELSE points = <<>> /\ Exchange!Given
  /\ Slab!Init /\ (part # "slab" => record_len = CHOOSE len \in RecordLens : TRUE)
  /\ Growth!Init
  /\ Octree!Init
  /\ IF part = "copc" THEN Copc!Init
     ELSE /\ file = [r \in Readers |-> <<>>] /\ held = [r \in Readers |-> [o \in Offsets |-> 0]]
          /\ hand = None /\ out = Copc!NoAnswer

Next ==
  /\ \/ /\ part = "exchange" /\ Exchange!Next
        /\ UNCHANGED <<slabVars, growthVars, octreeVars, copcVars>>
     \/ /\ part = "slab" /\ Slab!Next
        /\ UNCHANGED <<exchangeVars, growthVars, octreeVars, copcVars>>
     \/ /\ part = "growth" /\ Growth!Next
        /\ UNCHANGED <<exchangeVars, slabVars, octreeVars, copcVars>>
     \/ /\ part = "octree" /\ Octree!Next
        /\ UNCHANGED <<exchangeVars, slabVars, growthVars, copcVars>>
     \/ /\ part = "copc" /\ Copc!Next
        /\ UNCHANGED <<exchangeVars, slabVars, growthVars, octreeVars>>
  /\ UNCHANGED part

\* A call that hands points over is sequential code and goes on.
Handing ==
  /\ part = "exchange" /\ Exchange!Call
  /\ UNCHANGED <<part, slabVars, growthVars, octreeVars, copcVars>>

Spec == Init /\ [][Next]_vars /\ WF_vars(Handing)

-----------------------------------------------------------------------------
(* Properties *)

\* Points and their extra bytes, in two buffers, never run out of step in
\* points_from_ffi.
BuffersInStep == Exchange!BuffersInStep

\* points() and the columns give back what was handed over, but for coordinates
\* that a record has no number for.
ReadsBack == Exchange!ReadsBack

\* Handing points over ends, with all of them or for a point that las-rs has no
\* value or no room for.
CallReturns == part = "exchange" => Exchange!CallReturns

\* resize_for makes room for exactly n records and returns all of it, or throws
\* and leaves the points alone, for every size_t.
ResizesExactly == Slab!ResizesExactly

\* Bounds::grow keeps the smallest box around the numbers, whatever NaN comes.
SmallestBox == Growth!SmallestBox

\* Cells of VoxelKeys overlap exactly when one is in the subtree of the other.
CellsFollowTree == Octree!CellsFollowTree

\* read_entry takes whole chunks of the reader's own file and makes no more room
\* than that file asks for, whatever entry it gets.
ReadsOwnChunks == Copc!ReadsOwnChunks

\* A query visits the cells that the caller's selection stands for.
QueryVisitsSelected == Copc!QueryVisitsSelected

\* iter_entries gives the whole page or throws.
ListsWholePage == Copc!ListsWholePage
=============================================================================
