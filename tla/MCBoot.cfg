CONSTANTS
  Layouts <- MCLayouts
  ImagePages = 2
  StackPages = 2
  BitsPerByte = 2
  Spans <- MCSpans
  DirectBase = 24
  ImageBase = 48
  StackBase = 72
  GdtFrame = 3
SPECIFICATION Spec
CHECK_DEADLOCK FALSE
INVARIANTS BitmapExact UsedExact KernelReaches
