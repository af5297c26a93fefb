\* Every load of a configuration from three files.
SPECIFICATION Spec
CONSTANTS
  Dir = {"project", "home", "root"}
  Up <- MCUp
  ConfigIn <- MCConfigIn
  Path = {"p1", "p2", "p3", "link", "missing"}
  Join <- MCJoin
  File = {"f1", "f2", "f3"}
  FileAt <- MCFileAt
  Text <- MCText
  Ref = {"next", "back"}
  Key = {"threshold"}
  Value = {"3", "9", "hint", "error"}
  Glob = {"tests"}
  Id = {"XR001", "xr001", "DK001"}
  Rule = {"XR001", "DK001"}
  RuleOf <- MCRuleOf
  None = None
CHECK_DEADLOCK FALSE
INVARIANTS
  SeverityIsNearest
  ChildWins
  ListsUnite
  TyposAreErrors
PROPERTIES
  Loads
