SPECIFICATION Spec
CONSTANTS
  Users = {u1, u2}
  Requests = {r1, r2}
  MaxLimit = 2
  Nobody = Nobody
SYMMETRY Symmetry
INVARIANTS TypeOK SeatsWithinLimit
PROPERTIES NeverHeadless
CHECK_DEADLOCK FALSE
