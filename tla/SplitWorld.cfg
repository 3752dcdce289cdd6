SPECIFICATION FairSpec
CONSTANTS
  swcount = 2
  MixesJobs = FALSE
  MaxOps = 3
INVARIANTS TypeOK CallsMatch SameOutcome JobsRunOnce PerWorldJobsRun IdsUnique NothingLeft
PROPERTY ScriptEnds
