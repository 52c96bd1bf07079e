SPECIFICATION Spec
CONSTANTS
  a = a
  b = b
  r1 = r1
  r2 = r2
  k1 = k1
  NoFinding = NoFinding
  NoKey = NoKey
  Findings <- OneFinding
  Requests <- TwoRequests
  Keys <- OneKey
  Fields <- ThreeFields
PROPERTIES
  LegalWhenUndisturbed
CHECK_DEADLOCK FALSE
