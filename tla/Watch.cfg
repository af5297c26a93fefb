\* Two files, one below the directory watched and one watched by itself, edited
\* at any moment after the registration.
SPECIFICATION FairSpec
CONSTANTS
  File = {"a.py", "b.py"}
  RootOf <- MCRootOf
  EarlyEdits = FALSE
  EditsRace = FALSE
  MaxVersion = 2
  None = None
INVARIANTS
  NothingForgotten
PROPERTIES
  CatchesUp
CHECK_DEADLOCK FALSE
