\* A baseline file that is no UTF-8.
CONSTANTS
  None = None
  Files <- MCFiles
  Dirs <- MCDirs
  DirsOf <- MCDirsOf
  Sealed = {}
  Eligible <- MCFiles
  IgnoreFile = {"stub"}
  Packs <- MCPacks
  Contents <- MCContents
  ProjectFiles <- NoProjectFile
  Commands <- MCCommands
  Damages = {"undecodable"}
SPECIFICATION Spec
INVARIANT ExitOneMeansFindings
