SPECIFICATION Spec
CONSTANTS
  None = None
  Runs = {r1, r2}
  MaxFaults = 1
INVARIANT InterruptedIsRecoverable
CHECK_DEADLOCK FALSE
