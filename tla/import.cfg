SPECIFICATION Spec
CONSTANTS
  Rescued <- RescuedRows
  ExpectedCount = 2
  Manifests = {m1, m2}
  None = None
  MaxId = 4
  MaxRuns = 5
SYMMETRY ManifestSymmetry
INVARIANTS TypeOK ReceiptIsWhole LiveIdsFree RefusedForCause GreenIsProved
CHECK_DEADLOCK FALSE
