SPECIFICATION AllSpec
CONSTANTS
  MaxTask = 5
  BootTasks = 5
  PROCMAN = 2
  Idle = 3
  Delays = {0, 2}
  Word = 6
  Runner = {"t1", "t2", "t3"}
  Driver = {"d1", "d2"}
  FIRES = 3
  CALLS = 1
  Program = {3, 4}
  Code = {0, 1, 2}
  Unknown = {"unknown"}
  Beyond = {"beyond"}
  INVALID_SYSCALL = 99
INVARIANTS
  TasksSound
  RingClosed
  SwitchesSound
  EntriesSound
PROPERTIES
  MtHolds
  OwnContext
  EverReady
