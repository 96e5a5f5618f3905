SPECIFICATION Spec
CONSTANTS
  Lives <- AfterAReset
  MinSpan = 1
  QuietMin = 1
CHECK_DEADLOCK FALSE
INVARIANT RateStaysInOneRun
