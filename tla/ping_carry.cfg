\* All requests.
SPECIFICATION Spec
CONSTANTS
  FirstBytes <- AllBytes
  SecondBytes <- EdgeBytes
  FrameSizes = {41, 42, 74}
INVARIANT ReplyIsValid
CHECK_DEADLOCK FALSE
