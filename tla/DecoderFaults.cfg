\* Faulty inputs, events Decode never sees, no QRT flag, and in-time mode.
SPECIFICATION Spec
CONSTANTS
  MAXBIT = 2
  Taps = {1, 2}
  MaxQRTProblems = 1
  MinScalerBits = 0
  Period = 4
  MPSTicks = 1
  EventTicks = {0, 3}
  Setups <- MCTroubled
INVARIANTS RightIsTrue
PROPERTIES RightIsKept SettledIsKept
