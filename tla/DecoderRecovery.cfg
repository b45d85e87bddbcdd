\* A healthy rate: how long calibration, search and recovery take.
SPECIFICATION SteadySpec
CONSTANTS
  MAXBIT = 2
  Taps = {1, 2}
  MaxQRTProblems = 1
  MinScalerBits = 0
  Period = 4
  MPSTicks = 1
  EventTicks = {0, 3}
  Setups <- MCSteady
INVARIANTS SteadyCalibration
PROPERTIES FalseLockNeedsEqualBits EventuallyCalibrated
