SPECIFICATION AllSpec
CONSTANTS
  Parts = {"life", "races", "delays", "waits"}
  NULL = NULL
  PROCMAN = 2
  MaxTask = 7
  Word = 9
  Launchers = {4}
  Task <- MCTask
  Payload <- MCPayload
  Boot = {0, 1, 2, 3, 4, 5}
  DeadAtBoot = {0, 1}
  Servers = {3}
  Calls <- LifeCalls
  Relays = {}
  Answers <- MCAnswers
  Malformed = {}
INVARIANTS
  PmTypeOK
  ThreadsCounted
  LifeSound
PROPERTIES
  NoResurrection
  WaitDieMeansDead
  ImplementsRpc
CHECK_DEADLOCK FALSE
