SPECIFICATION AllSpec
CONSTANTS
  Printed <- MCPrinted
  HALF = 8
  Printer = {"main", "stdin"}
  Keyboard = "keyboard"
  CONSOLES = 2
  COLUMNS = 2
  ROWS = 2
  BEHIND = 2
  LETTERS = 1
  Letter = {"a"}
  Key <- MCKey
  HELD = 2
  LINE = 2
  Client = {"a", "b"}
  BUFFER = 4
  Lengths = {1, 2}
  TYPED = 4
  READS = 2
INVARIANTS
  ScreenSound
  KeysSound
  ReadersSound
  FormatsSound
PROPERTIES
  ResolveAnswered
CHECK_DEADLOCK FALSE
