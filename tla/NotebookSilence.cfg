\* A function whose parameter has the name of a variable of the file.
SPECIFICATION KernelSpec
CONSTANTS
  None = None
  Name <- MCName
  Module <- MCModule
  GpuModule = {"cupy"}
  Scope = {"top", "f", "g"}
  Root = "top"
  Above <- MCAbove
  Anything <- MCAnything
  I64Max = 127
  TrivialChunkElements = 64
  FlagMissingCompression = FALSE
  Input <- MCSilentInput
INVARIANTS
  SilentOnlyWhenProvable
CHECK_DEADLOCK FALSE
