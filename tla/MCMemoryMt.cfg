SPECIFICATION AllSpec
CONSTANTS
  Parts = {"pages"}
  Kernel <- MCKernel
  User <- MCUser
  Virtual <- MCVirtual
  s1 = s1
  s2 = s2
  Server = {"fs", "tty"}
  Byte = {0, 1}
  Zero = 0
  MaxLength = 2
  MaxForwards = 2
  Reserved = 2
  Count = 8
  Requests = {1, 2, 3}
  Foreign = {}
  MaxDepth = 3
INVARIANTS MtBalanced
CHECK_DEADLOCK FALSE
