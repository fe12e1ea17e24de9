\* Tasks, driver and ring together; frames answered before they are freed.
SPECIFICATION FairSpec
CONSTANTS
  MAX_ETH_PACKETS = 2
  USE_LWIP = TRUE
  FrameKinds = {"arp"}
  MaxTimerOutputs = 0
  RX_START = 10
  RX_END = 29
  FrameLens = {1}
  BufSize = 1
  MaxAfterBad = 1
  GarbageNext = {0}
  GarbageLens = {1}
  MaxFrames = 3
PROPERTIES
  ImplementsPipeline
  FramesAreDelivered
  OutputsAreSent
CHECK_DEADLOCK FALSE
