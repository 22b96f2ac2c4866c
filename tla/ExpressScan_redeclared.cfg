\* A name that is declared three times: what is registered under it is taken for
\* the last receiver's.  GuardedIsEnforced is violated.
CONSTANTS
  None = None
  Computed = Computed
  File <- MCFile
  Export <- MCExport
  Main = "main"
  Header <- MCHeader
  Statements <- Redeclared
  MaxStatements <- RedeclaredMax
  MountedOnce = TRUE
  Paths <- MCPaths
SPECIFICATION Spec
PROPERTIES
  GuardedIsEnforced
