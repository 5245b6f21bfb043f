\* Five frames in bitmap words of three bits, every boot-time bitmap.
CONSTANTS
  TotalFrames = 5
  WordFrames = 3
  PageSize = 4
  Counts = {0, 1, 2}
  Alignments = {1, 8}
  Wrap = 4096
  UsedBound = 3
SPECIFICATION FairSpec
INVARIANTS TypeOK Accounting PanicOnlyOnStray ScanCovers
PROPERTIES  ImplementsFirstFit AllocateReturns
