SPECIFICATION Spec
CONSTANTS
  Plans = {p1, p2, p3, p4, p5}
  Requests = {r1, r2, r3}
  NoPlan = NoPlan
SYMMETRY Symmetry
INVARIANTS TypeOK ActiveIsNewest ArchiveComplete
PROPERTIES SupersededForGood ImplementsPlanHistory
CHECK_DEADLOCK FALSE
