SPECIFICATION AllSpec
CONSTANTS
  Name = {"modules", "n", "t", "x"}
  MAX_PATH = 4
  Server <- Servers
  MaxNode = 6
  File = {"f1", "f2", "f3", "f4"}
  FileName <- Names
  Printer = {"f3"}
  Fs = 3
  Procman = 2
  Mounter = {5, 6}
  Terminal = 6
  MountName <- MountNames
  MountParameter <- Parameters
  Modules <- TheModules
  TreeName = {"a"}
  TreePath = 4
  TreeServer <- TreeServers
  TreeNodes = 4
INVARIANTS
  TreesSound
  FilesSound
PROPERTIES
  ServerImplementsMap
  TextGetsOut
CHECK_DEADLOCK FALSE
