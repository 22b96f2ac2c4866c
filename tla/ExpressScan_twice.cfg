\* An imported router mounted twice.
CONSTANTS
  None = None
  Computed = Computed
  File <- MCFile
  Export <- MCExport
  Main = "main"
  Header <- MCHeader
  Statements <- MountedTwice
  MaxStatements <- MountedTwiceMax
  MountedOnce = FALSE
  Paths <- TwicePaths
SPECIFICATION Spec
PROPERTIES
  GuardedIsEnforced
