\* One server and its editor.
SPECIFICATION Spec
CONSTANTS
  Doc = {"file", "untitled"}
  FileDoc = {"file"}
  Content = {"good", "bad"}
  Finding = {"XR001"}
  Findings <- MCFindings
  Ignored <- MCIgnored
  MaxFrames = 4
  PipeSize = 2
  None = None
INVARIANTS
  ShownIsCurrent
  RequestsAnsweredOnce
PROPERTIES
  Refreshed
  ServerEnds
