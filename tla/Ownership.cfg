\* Two readers and two writers: moves and assignments both ways, and to itself.
SPECIFICATION Spec
CONSTANTS
  Readers = {r1, r2}
  Writers = {w1, w2}
  Adapters = {a1, a2, a3}
  Handles = {h1, h2, h3}
  Copies = {c1, c2, c3}
  Null = Null
SYMMETRY Symmetry
INVARIANTS AdapterOutlivesHandle OwnedExactlyOnce HeaderBorrowsOwnHandle
           StreamBelongsToHandle
