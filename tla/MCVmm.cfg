CONSTANTS
  Fan = 2
  PageBytes = 2
  Root = 1
  Ram = {2, 3, 4, 5, 6}
  Devices = {8}
  Pages = {8, 9}
  Regular = {8, 9}
  MapCounts = {0, 2}
  PinAddrs = {0, 16}
  PinCounts = {0, 1, 6}
  HugeCalls = TRUE
SPECIFICATION Spec
INVARIANTS  TlbCoherent
PROPERTIES ImplementsPageMap AnswersSound
CONSTRAINT Intact
