CONSTANTS
  HeapPages = 6
  MmioPages = 3
  SlabNodes = 8
  MinNodes = 2
  Slabs = 2
  IntPages = 64
  Wrap = 64
  Sizes = {1, 2}
  Types = {"regular"}
SPECIFICATION Spec
INVARIANT RefillKeepsTiling
CONSTRAINT Sound
