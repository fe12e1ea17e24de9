\* Echo requests with lwIP: the tasks can end up waiting for each other.
SPECIFICATION Spec
CONSTANTS
  MAX_ETH_PACKETS = 2
  USE_LWIP = TRUE
  FrameKinds = {"echo"}
  MaxFrames = 4
  ChipCapacity = 2
  MaxTimerOutputs = 0
INVARIANT NoMutualWait
CHECK_DEADLOCK FALSE
