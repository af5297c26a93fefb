\* Two runs beside a submission script that is edited in between.
SPECIFICATION Spec
CONSTANTS
  Path = {1, 2}
  Word = {"1", "2", "$N", "2G", "4G", "OMP_NUM_THREADS"}
  Count <- MCCount
  Bytes <- MCBytes
  GpuGres = {}
  GpuQueue = {}
  ThreadVar = {"OMP_NUM_THREADS"}
  MaxInt = 3
  Script <- MCScript
  File <- MCFile
  None = None
CHECK_DEADLOCK FALSE
INVARIANTS
  RequestIsRead
  SilenceInvariant
  FingerprintSeparates
