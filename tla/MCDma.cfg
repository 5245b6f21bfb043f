CONSTANTS
  PageBytes = 2
  Frames = {1, 2, 3}
  Pages = {1, 2, 3}
  Counts = {0, 1, 2}
  Devices <- MCDevices
SPECIFICATION Spec
INVARIANTS OwnedOnce HeldReachable
