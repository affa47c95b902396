SPECIFICATION AllSpec
CONSTANTS
  Parts = {"heap"}
  Kernel <- MCKernel
  User <- MCUser
  Virtual <- MCVirtual
  s1 = s1
  s2 = s2
  Server = {"fs", "tty"}
  Byte = {0, 1}
  Zero = 0
  MaxLength = 2
  MaxForwards = 2
  Reserved = 2
  Count = 8
  Requests = {1, 2, 3}
  Foreign = {1}
  MaxDepth = 3
INVARIANTS NeverPanics
CHECK_DEADLOCK FALSE
