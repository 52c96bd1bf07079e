SPECIFICATION Spec
CONSTANTS
  Files = {f1, f2}
  Documents = {d1}
  Contents = {"sheet", "plan", "broken"}
  TypeOf <- PdfAndDxf
  Invalid = {"broken"}
  Requests = {r1, r2}
  MaxVersion = 2
  None = None
SYMMETRY Symmetry
INVARIANTS TypeOK NoDanglingVersion PinnedHeadIsReady
PROPERTIES UploadsNotDoubled ImplementsShelf
CHECK_DEADLOCK FALSE
