\* A package.json that changes between the two readings.
CONSTANTS
  None = None
  Computed = Computed
  File <- MCFile
  Export <- MCExport
  Path <- FewPaths
  Directory <- MCDirectory
  Target <- MCTarget
  Position <- MCPosition
  Inside <- FewPaths
  Parent <- MCParent
  Upwards <- MCUpwards
  Suffix <- MCSuffix
  Stem <- MCStem
  Folders <- MCFolders
  Parseable <- MCParseable
  ModulePaths <- MCModulePaths
  Contents <- FewContents
  Checkouts <- TwoFiles
  Requests = {}
  Manifests = {"express"}
  MaxFiles = 2
  MaxBytes = 2
  MaxTotal = 3
  MaxSummaries = 2
  MaxChanges = 1
  Policy <- MCPolicies
  Restless <- TwoFiles
CHECK_DEADLOCK FALSE
SPECIFICATION Spec
INVARIANTS
  InactiveFailsClosed
