\* The build without lwIP: the ping responder of ip_stack_task.c:124-146.
SPECIFICATION Spec
CONSTANTS
  MAX_ETH_PACKETS = 2
  USE_LWIP = FALSE
  FrameKinds = {"echo", "other"}
  MaxFrames = 5
  ChipCapacity = 3
  MaxTimerOutputs = 0
INVARIANTS
  NoLeak
  NoMutualWait
CHECK_DEADLOCK FALSE
