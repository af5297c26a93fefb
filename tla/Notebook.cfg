SPECIFICATION KernelSpec
CONSTANTS
  None = None
  Name <- MCName
  Module <- MCModule
  GpuModule = {"cupy"}
  Scope = {"top", "f", "g"}
  Root = "top"
  Above <- MCAbove
  Anything <- MCAnything
  I64Max = 127
  TrivialChunkElements = 64
  FlagMissingCompression = TRUE
  Input <- MCInput
INVARIANTS
  FirstCellWins
  ReadsLikeAFile
  AdviceAgrees
  ChunksAreJudged
  ClaimsAreTrue
  ReceiversAreJudged
  CallsReachTheirLibrary
CHECK_DEADLOCK FALSE
