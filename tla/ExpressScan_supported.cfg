\* Programs within the supported envelope: at most three statements in the
\* application file and one in the imported router's.
CONSTANTS
  None = None
  Computed = Computed
  File <- MCFile
  Export <- MCExport
  Main = "main"
  Header <- MCHeader
  Statements <- Supported
  MaxStatements <- SupportedMax
  MountedOnce = TRUE
  Paths <- MCPaths
SPECIFICATION Spec
INVARIANTS
  AdapterGraphIsValid
PROPERTIES
  GuardedIsEnforced
  ReportedPathIsServed
  ServedIsReported
