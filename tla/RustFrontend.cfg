\* Three requests over two crates, every pair of manifests, and one change at
\* any time.
CONSTANTS
  Path <- MCPath
  Directory <- MCDirectory
  Target <- MCTarget
  Position <- MCPosition
  Inside <- MCInside
  Parent <- MCParent
  Upwards <- MCUpwards
  Parseable <- MCParseable
  ModulePaths <- MCModulePaths
  Contents <- MCContents
  Checkouts <- MCCheckouts
  Manifests = {"workspace", "member", "both", "nested"}
  Requests <- MCRequests
  Cargo <- MCCargo
  Identifier <- MCIdentifier
  MaxFiles = 3
  MaxBytes = 2
  MaxTotal = 3
  MaxSummaries = 2
  MaxChanges = 1
SPECIFICATION RustSpec
INVARIANTS
  StillDiskIsAnalyzed
  SilenceMeansResolved
