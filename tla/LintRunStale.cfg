\* A write lands between the read of a run and its write-back.
SPECIFICATION Spec
CONSTANTS
  None = None
  Failed = Failed
  Torn = Torn
  Path = {"a.py"}
  Notebook = {}
  Content <- MCContent
  Unreadable <- MCUnreadable
  Setting <- MCOneSetting
  Key <- MCKey
  KeyOf <- MCKeyOf
  Rule <- MCRule
  JOB004 = "JOB004"
  Findings <- MCFindings
  GpuImport <- MCGpuImport
  GpuRequested <- MCGpuRequested
  Invocation <- MCOneCached
  Stamp = {st1, st2}
  Run = {r1}
  EditsRace = TRUE
  StampsCollide = FALSE
SYMMETRY Symmetry
PROPERTIES
  HitsServeCurrentFindings
