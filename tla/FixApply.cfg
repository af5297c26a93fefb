\* The loop of fix::apply on every small list of edits.
SPECIFICATION Spec
CONSTANTS
  Byte <- MCByte
  Continuation <- MCContinuation
  MaxUsize = 100
  Source <- MCSource
  FixLists <- MCFixLists
INVARIANTS
  EditsOnCharBoundaries
  SplicedExactly
  SkippedOnlyForOverlap
CHECK_DEADLOCK FALSE
