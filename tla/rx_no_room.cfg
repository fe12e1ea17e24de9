\* The ring after an overrun.
SPECIFICATION Spec
CONSTANTS
  RX_START = 10
  RX_END = 39
  FrameLens = {2, 7}
  MaxFrames = 6
  BufSize = 8
  MaxAfterBad = 1
  GarbageNext = {0, 11, 40, 41}
  GarbageLens = {8, 9}
INVARIANT EmptyRingHasRoom
