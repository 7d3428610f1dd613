CONSTANTS
  Jobs = {1}
  MaxClicks = 3
  MaxErrs = 1
SPECIFICATION Spec
INVARIANTS IdleIsStopped StoppingIsTold
CHECK_DEADLOCK FALSE
