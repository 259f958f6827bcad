\* Three variables; one more handle than variables for the clone in an assignment.
SPECIFICATION Spec
CONSTANTS
  Variables = {a, b, c}
  Handles = {h1, h2, h3, h4}
  Contents = {x, y}
SYMMETRY Addresses
INVARIANTS OneOwnerEach
PROPERTY ImplementsValues
