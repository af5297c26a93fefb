\* `xray fix` inserts two keywords in one call.
SPECIFICATION FileSpec
CONSTANTS
  Byte <- MCByte
  Continuation <- MCContinuation
  MaxUsize = 100
  Text <- MCPlainText
  RuleSets <- MCAllRules
  MaxRuns = 2
INVARIANTS
  FixedFileParses
CHECK_DEADLOCK FALSE
