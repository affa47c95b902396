SPECIFICATION IpcSpec
CONSTANTS
  c1 = c1
  c2 = c2
  c3 = c3
  fs = fs
  tty = tty
  stdin = stdin
  pm = pm
  kernel = kernel
  ghost = ghost
  p = p
  NULL = NULL
  Task <- MCTask
  Payload <- MCPayload
  Boot <- MCBoot
  DeadAtBoot <- MCDead
  Servers <- MCServers
  Calls <- MCCalls
  Answers <- MCAnswers
  Relays <- MCRelays
  Malformed = {"send", "reply", "forward"}
INVARIANTS
  OneRequestPerCall
  NoLostWakeup
  NeverCrashes
PROPERTIES
  HeldUntilAnswered
  ImplementsRpc
