\* One file, linted, silenced and relinted under several configurations and flags.
SPECIFICATION Spec
CONSTANTS
  Rule = {"XR000", "XR005", "DK001", "DK002", "JOB002"}
  UnknownId = "ZZ999"
  Line = {1, 2}
  Column = {1, 5, 9}
  Script = {"run.sh", "other.sh"}
  SeverityOf <- MCSeverityOf
  Fires <- MCFires
  Config <- MCConfig
  Flags <- MCFlags
  Comments <- MCComments
  FileLevel <- MCFileLevel
  None = None
INVARIANTS
  EveryCallIsReported
  OneFindingPerCall
  
PROPERTIES
  AdviceIsSafe
  SuppressIsPrecise
