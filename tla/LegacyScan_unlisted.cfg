\* A directory that cannot be listed, scanned with --strict-coverage.
CONSTANTS
  None = None
  Files <- MCFiles
  Dirs <- MCDirs
  DirsOf <- MCDirsOf
  Sealed = {"legacy"}
  Eligible <- MCFiles
  IgnoreFile = {"stub"}
  Packs <- MCPacks
  Contents <- MCContents
  ProjectFiles <- NoProjectFile
  Commands <- StrictCommands
  Damages = {"absent", "malformed"}
SPECIFICATION Spec
INVARIANT StrictCoverageIsComplete
