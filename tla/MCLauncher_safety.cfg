CONSTANTS
  Jobs = {1}
  MaxClicks = 3
  MaxErrs = 1
SPECIFICATION FairSpec
INVARIANTS PollGoesOn
PROPERTIES KillsOnlyForced StopEnds
CHECK_DEADLOCK FALSE
