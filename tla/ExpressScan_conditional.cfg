\* A guard registered under a condition.
CONSTANTS
  None = None
  Computed = Computed
  File <- MCFile
  Export <- MCExport
  Main = "main"
  Header <- MCHeader
  Statements <- Conditional
  MaxStatements <- MainOnlyMax
  MountedOnce = TRUE
  Paths <- MCPaths
SPECIFICATION Spec
PROPERTIES
  GuardedIsEnforced
