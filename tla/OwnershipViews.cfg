\* The lifetime writer.hpp gives the reference that header() returns.
SPECIFICATION Spec
CONSTANTS
  Readers = {}
  Writers = {w1, w2}
  Adapters = {a1, a2}
  Handles = {h1, h2}
  Copies = {c1, c2, c3}
  Null = Null
INVARIANT HeaderViewsValidUntilDestroyed
CHECK_DEADLOCK FALSE
