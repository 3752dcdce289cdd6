SPECIFICATION Spec
CONSTANTS
  swcount = 3
  Vars <- OneVar
  Op <- OneSum
  ExportValues <- OneValueOnly
  Queried <- OneVar
  Copied <- NoCopies
  CopyShared = TRUE
  SetTwice = FALSE
  MaxBatches = 3
  MaxOps = 2
  MaxExports = 2
INVARIANTS CopiesEverywhere OldCopiesAgree NewHasValue NoneMeansNoValue ImportsAgree RInv GroupsMatch JointStep
PROPERTY OneValue
