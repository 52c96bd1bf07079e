SPECIFICATION Spec
CONSTANTS
  a = a
  b = b
  r1 = r1
  r2 = r2
  k1 = k1
  NoFinding = NoFinding
  NoKey = NoKey
  Findings <- TwoFindings
  Requests <- TwoRequests
  Keys <- OneKey
  Fields <- OneField
SYMMETRY Interchangeable
INVARIANTS
  TypeOK
  OneFindingPerKey
PROPERTIES
  DeletedStaysPut
  CircleOnlyByStaleMark
CHECK_DEADLOCK FALSE
