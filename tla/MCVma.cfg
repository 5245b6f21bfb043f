CONSTANTS
  HeapPages = 6
  MmioPages = 1
  SlabNodes = 9
  MinNodes = 2
  Slabs = 1
  IntPages = 64
  Wrap = 64
  Sizes = {1, 2}
  Types = {"regular"}
SPECIFICATION Spec
INVARIANTS Tiling NodesConserved
CONSTRAINT Sound
