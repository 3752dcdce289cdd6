SPECIFICATION Spec
CONSTANTS
  swcount = 2
  Vars <- ThreeVars
  Op <- SetMaxLocal
  ExportValues <- Values
  Queried <- FirstVar
  Copied <- FirstToSecond
  CopyShared = TRUE
  SetTwice = FALSE
  MaxBatches = 2
  MaxOps = 2
  MaxExports = 1
INVARIANTS TypeOK
PROPERTIES OneValue LocalStaysLocal
