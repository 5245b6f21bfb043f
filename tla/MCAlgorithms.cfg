CONSTANTS
  MinShift = 4
  BucketCount = 7
  PageBytes = 4096
  HeaderBytes = 32
  WordRange = 1073741824
  PageSize = 3
  DbcRange = 16
  WordBytes = 4
  Devices = 2
  Functions = 3
  MaxDevices = 3
  MaxDrivers = 3
  MaxSize = 1100
  MaxFrame = 4
  BufferPages = 3
  MaxNumber = 1100
  MaxText = 3
  Chars <- MCChars
  MaxArea = 12
  Headers <- MCHeaders
  Early <- MCEarly
  Late <- MCLate
SPECIFICATION Spec
INVARIANTS BucketExact PrdtExact ConvertsExactly ComparesAlike FillsExactly PciFound PciServed
