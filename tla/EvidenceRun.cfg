\* Every disk of five sources, three of them links to files the collection
\* leaves out, at rest; and one change at any time of the disk with two files.
CONSTANTS
  None = None
  Computed = Computed
  File <- MCFile
  Export <- MCExport
  Path <- LinkPaths
  Directory <- MCDirectory
  Target <- MCTarget
  Position <- MCPosition
  Inside <- LinkPaths
  Parent <- MCParent
  Upwards <- MCUpwards
  Suffix <- MCSuffix
  Stem <- MCStem
  Folders <- MCFolders
  Parseable <- MCParseable
  ModulePaths <- MCModulePaths
  Contents <- MCContents
  Checkouts <- MCCheckouts
  Requests = {}
  Manifests = {"express", "nested"}
  MaxFiles = 5
  MaxBytes = 2
  MaxTotal = 5
  MaxSummaries = 4
  MaxChanges = 1
  Policy <- MCPolicies
  Restless <- TwoFiles
CHECK_DEADLOCK FALSE
SPECIFICATION Spec
INVARIANTS
  SatisfiedSawEverything
  VerdictsRestOnCleanSources
  StillProjectFailsClosed
  EndpointsAreOwned
