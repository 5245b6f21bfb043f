CONSTANTS
  MinShift = 1
  BucketCount = 2
  PageBytes = 16
  HeaderBytes = 8
  WordRange = 1073741824
  PageIds = {1, 2, 3}
  Sizes = {0, 2, 3, 9, 17}
  MaxHeld = 3
SPECIFICATION Spec
INVARIANTS BlocksConserved ListsExact
CONSTRAINT Bounded
