CONSTANTS
  Ids = {1, 2, 3, 4}
  Memory <- MCMemory
  RefWrap = 8
  RootInode = 10
  Children <- MCChildren
  FileSize = 2
  SizeWrap = 8
  Paths <- MCPaths
  Offsets = {0, 1, 7}
  Sizes = {0, 1, 2}
  Indices = {0, 1}
  MaxOpen = 2
SPECIFICATION Spec
CHECK_DEADLOCK FALSE
INVARIANTS
  RefsCounted OpenNodesLive LookupExact 
