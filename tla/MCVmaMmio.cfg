CONSTANTS
  HeapPages = 3
  MmioPages = 4
  SlabNodes = 5
  MinNodes = 2
  Slabs = 2
  IntPages = 64
  Wrap = 64
  Sizes = {1, 2}
  Types = {"regular", "mmio", "unmanaged"}
SPECIFICATION Spec
INVARIANTS  MappingsAgree
CONSTRAINT Sound
