----------------------------- MODULE VoxelKeys ------------------------------
(***************************************************************************)
(* copc::VoxelKey of include/lasrs/types.hpp: the keys of the cells of an  *)
(* octree, walked by callers that go down and up in it.  The members are   *)
(* int32_t: shifts to the left drop bits, shifts to the right keep the     *)
(* sign.  Coordinates of cells are exact here, not rounded as doubles are. *)
(***************************************************************************)
EXTENDS Integers, Sequences, SequencesExt

CONSTANTS Walkers,
          Bits,      \* width of the members
          MaxDepth   \* how far down the walkers go

VARIABLES key,   \* per walker the key it holds
          path   \* per walker the directions that lead from the root to its cell

vars == <<key, path>>

VoxelKey(l, x, y, z) == [l |-> l, x |-> x, y |-> y, z |-> z]
ROOT == VoxelKey(0, 0, 0, 0)

Wrap(n) == ((n + 2 ^ (Bits - 1)) % 2 ^ Bits) - 2 ^ (Bits - 1)

\* (v << 1) | bit, and the bits of a direction.
Down(v, bit) == Wrap(2 * v) + bit
Bit(direction, i) == (direction \div 2 ^ i) % 2

child(k, direction) ==
  VoxelKey(k.l + 1, Down(k.x, Bit(direction, 0)), Down(k.y, Bit(direction, 1)), Down(k.z, Bit(direction, 2)))

parent(k) == VoxelKey(IF k.l - 1 > 0 THEN k.l - 1 ELSE 0, k.x \div 2, k.y \div 2, k.z \div 2)

children(k) == [i \in 0 .. 7 |-> child(k, i)]

\* In units in which the smallest cells have size 1 and the root starts at 0.
Size_Undivided(l) == 2 ^ MaxDepth

Size(l) == 2 ^ (MaxDepth - l)

bounds(k) ==
  LET min == <<k.x * Size(k.l), k.y * Size(k.l), k.z * Size(k.l)>>
  IN  [min |-> min, max |-> [a \in 1 .. 3 |-> min[a] + Size(k.l)]]

-----------------------------------------------------------------------------
Init ==
  /\ key = [w \in Walkers |-> ROOT]
  /\ path = [w \in Walkers |-> <<>>]

\* child throws for a direction that is not one of the eight.
GoDown(w, direction) ==
  /\ Len(path[w]) < MaxDepth
  /\ direction \in 0 .. 7
  /\ \E below \in {child(key[w], direction), children(key[w])[direction]} :
       key' = [key EXCEPT ![w] = below]
  /\ path' = [path EXCEPT ![w] = Append(@, direction)]

\* The root is its own parent.
GoUp(w) ==
  /\ key' = [key EXCEPT ![w] = parent(key[w])]
  /\ path' = [path EXCEPT ![w] = IF @ = <<>> THEN @ ELSE Front(@)]

Next == \E w \in Walkers : GoUp(w) \/ \E direction \in -1 .. 8 : GoDown(w, direction)

Spec == Init /\ [][Next]_vars

-----------------------------------------------------------------------------
(* Properties *)

\* Whether two half-open boxes have a point in common.
Overlap(b, c) == \A a \in 1 .. 3 : b.min[a] < c.max[a] /\ c.min[a] < b.max[a]

\* The geometry follows the tree, however the walkers went up and down: two
\* cells overlap exactly when one is in the subtree of the other.  So different
\* ways down lead to different keys, the eight children() of a cell share it out,
\* and entries can be looked up by key.
CellsFollowTree ==
  \A v, w \in Walkers :
    Overlap(bounds(key[v]), bounds(key[w])) <=>
      IsPrefix(path[v], path[w]) \/ IsPrefix(path[w], path[v])

=============================================================================
