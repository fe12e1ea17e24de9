\* The build with lwIP and every way of handling a frame.
SPECIFICATION Spec
CONSTANTS
  MAX_ETH_PACKETS = 2
  USE_LWIP = TRUE
  FrameKinds = {"echo", "arp", "frag"}
  MaxFrames = 3
  ChipCapacity = 2
  MaxTimerOutputs = 1
INVARIANTS
  TypeOK
  OneOwner
  SendsNeverFail
  RxInOrder
  TxInOrder
CHECK_DEADLOCK FALSE
