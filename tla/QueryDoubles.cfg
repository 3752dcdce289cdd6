SPECIFICATION Spec
CONSTANTS
  swcount = 2
  Vars <- TwoVars
  Op <- SumSum
  ExportValues <- OneValueOnly
  Queried <- TwoVars
  Copied <- NoCopies
  CopyShared = TRUE
  SetTwice = FALSE
  MaxBatches = 2
  MaxOps = 2
  MaxExports = 1
INVARIANT SumWithinBatch
