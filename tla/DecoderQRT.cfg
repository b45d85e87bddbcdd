\* A run with the QRT flag and the scaler's help, and windows without events.
SPECIFICATION Spec
CONSTANTS
  MAXBIT = 2
  Taps = {1, 2}
  MaxQRTProblems = 1
  MinScalerBits = 0
  Period = 4
  MPSTicks = 1
  EventTicks = {0, 3}
  Setups <- MCHealthy
INVARIANTS TypeInvariant SeedsInStep NoPrematureHelicity
PROPERTIES ImplementsOracle
