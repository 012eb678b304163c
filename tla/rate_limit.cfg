\* Five requests of two addresses, two of each admitted per window.
SPECIFICATION Spec
CONSTANTS
  Requests = {r1, r2, r3, r4, r5}
  Addresses = {a1, a2}
  Max = 2
  Window = 2
  MaxTime = 4
SYMMETRY MCSymmetry
INVARIANTS
  TypeOK
  SlidingWindow
PROPERTIES
  RefusedWithCause
CHECK_DEADLOCK FALSE
