SPECIFICATION Spec
CONSTANTS
  Lives <- AfterASwap
  MinSpan = 1
  QuietMin = 1
CHECK_DEADLOCK FALSE
INVARIANT ThinningKeepsTheFall
