CONSTANTS
  Frames = {0, 1, 2, 3, 4, 5}
  UserFrames <- MCUser
  Tables = 1
  Values = {a, b}
  Sectors = 3
  Identities <- MCIdentities
  Lba28 = 4
  Lba48 = 8
  Timeout = 1
  Lbas = {0, 2, 14}
  Counts = {0, 1, 2}
  MaxTransfer = 2
  Wrap = 16
SPECIFICATION Spec
CHECK_DEADLOCK FALSE
INVARIANTS
  SuccessIsExecuted DeviceWithinCall MemoryAccounted

  
