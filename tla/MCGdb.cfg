SPECIFICATION AllSpec
CONSTANTS
  Exceptions <- MCExceptions
  Accesses <- MCAccesses
INVARIANTS
  PacketsSound
  StopsSound
PROPERTIES
  Transparent
  Served
CHECK_DEADLOCK FALSE
