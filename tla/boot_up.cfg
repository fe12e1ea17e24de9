\* enc28_test_app, and programs that call the driver in any order.
SPECIFICATION FairSpec
INVARIANTS
  RightRegister
  DummyByteSkipped
  PhyValueIsFresh
  ReadyWhenReceiving
  MacNeedsClock
PROPERTY BootCompletes
CHECK_DEADLOCK FALSE
