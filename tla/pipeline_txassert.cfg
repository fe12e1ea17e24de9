\* The assertion on the result of enc28_write_packet.
SPECIFICATION Spec
CONSTANTS
  MAX_ETH_PACKETS = 2
  USE_LWIP = TRUE
  FrameKinds = {"echo"}
  MaxFrames = 3
  ChipCapacity = 2
  MaxTimerOutputs = 0
INVARIANT WriteNeverAsserts
CHECK_DEADLOCK FALSE
