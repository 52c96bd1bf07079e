SPECIFICATION Spec
CONSTANTS
  Plans = {p1, p2, p3}
  Requests = {r1, r2}
  NoPlan = NoPlan
PROPERTIES PublishedPersists
CHECK_DEADLOCK FALSE
