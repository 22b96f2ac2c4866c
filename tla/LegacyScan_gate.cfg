\* Nine command lines, four project files; documents are valid, malformed or
\* missing, and every directory can be listed.
CONSTANTS
  None = None
  Files <- MCFiles
  Dirs <- MCDirs
  DirsOf <- MCDirsOf
  Sealed = {}
  Eligible <- MCFiles
  IgnoreFile = {"stub"}
  Packs <- MCPacks
  Contents <- MCContents
  ProjectFiles <- MCProjectFiles
  Commands <- MCCommands
  Damages = {"absent", "malformed"}
SPECIFICATION Spec
INVARIANTS
  PartialScanNeverPasses
  StrictCoverageIsComplete
  GateHolds
  BaselineQuiets
  ExitOneMeansFindings
