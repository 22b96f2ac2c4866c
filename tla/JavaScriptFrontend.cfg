\* Any set of the paths, any disk, and one change at any time.
CONSTANTS
  Path <- MCPath
  Directory <- MCDirectory
  Target <- MCTarget
  Position <- MCPosition
  Inside <- MCInside
  Parent <- MCParent
  Upwards <- MCUpwards
  Parseable <- MCParseable
  ModulePaths <- MCModulePaths
  Contents <- MCContents
  Checkouts <- MCCheckouts
  Manifests = {"plain", "nested"}
  Requests <- MCRequests
  MaxFiles = 3
  MaxBytes = 2
  MaxTotal = 3
  MaxSummaries = 2
  MaxChanges = 1
SPECIFICATION FrontendSpec
INVARIANTS
  NoSourceDisappears
  TroubleIsDiagnosed
