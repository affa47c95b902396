SPECIFICATION AllSpec
CONSTANTS
  Parts = {"delays"}
  NULL = NULL
  PROCMAN = 2
  MaxTask = 5
  Word = 6
  Launchers = {4}
  Task <- MCTask
  Payload <- MCPayload
  Boot = {0, 1, 2, 3, 4, 5}
  DeadAtBoot = {0, 1}
  Servers = {3}
  Calls <- LifeCalls
  Relays = {}
  Answers <- MCAnswers
  Malformed = {}
INVARIANTS
  GotMessage
CHECK_DEADLOCK FALSE
