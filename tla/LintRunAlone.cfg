\* One process at a time over a source file and a notebook.
SPECIFICATION Spec
CONSTANTS
  None = None
  Failed = Failed
  Torn = Torn
  Path = {"a.py", "n.ipynb"}
  Notebook = {"n.ipynb"}
  Content <- MCContent
  Unreadable <- MCUnreadable
  Setting <- MCSetting
  Key <- MCKey
  KeyOf <- MCKeyOf
  Rule <- MCRule
  JOB004 = "JOB004"
  Findings <- MCFindings
  GpuImport <- MCGpuImport
  GpuRequested <- MCGpuRequested
  Invocation <- MCInvocation
  Stamp = {st1, st2}
  Run = {r1}
  EditsRace = FALSE
  StampsCollide = FALSE
SYMMETRY Symmetry
INVARIANTS
  StoreIsSound
  MemoryIsSound
PROPERTIES
  SavePrunes
  ImplementsLinter
