\* An interrupt during enc28_test_app.
SPECIFICATION Spec
INVARIANT NotifiedTaskExists
CHECK_DEADLOCK FALSE
