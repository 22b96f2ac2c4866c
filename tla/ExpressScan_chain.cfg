\* A public declaration above a chain of methods.
CONSTANTS
  None = None
  Computed = Computed
  File <- MCFile
  Export <- MCExport
  Main = "main"
  Header <- MCHeader
  Statements <- PublicChain
  MaxStatements <- MainOnlyMax
  MountedOnce = TRUE
  Paths <- MCPaths
SPECIFICATION Spec
INVARIANTS
  AdapterGraphIsValid
