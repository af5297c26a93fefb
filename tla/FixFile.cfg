\* Runs of `xray fix` with different rules, written or not, over every shape of call.
SPECIFICATION FileSpec
CONSTANTS
  Byte <- MCByte
  Continuation <- MCContinuation
  MaxUsize = 100
  Text <- MCText
  RuleSets <- MCRuleSets
  MaxRuns = 2
INVARIANTS
  PlainCallsStayPython
  SettledRulesAreIdle
  NothingIsSkipped
  PlainFileIsKept
CHECK_DEADLOCK FALSE
