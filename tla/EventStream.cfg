CONSTANTS
  Tdc1 = Tdc1
  Tdc2 = Tdc2
  NoRef = NoRef
  NoTime = NoTime
  Wrap = 6
  AdcOffset = 3
  OffLevel = 1
  OnLevel = 4
  PedSamples = 4
  DefaultThreshold = 8
  UserThreshold = 8
  UserRawSamples = FALSE
  AdcMayLose = TRUE
  FirstTimeMayMiss = FALSE
  MaxGap = 5
  MaxClock = 13
  MaxRuns = 2
  MAXBIT = 4
  Taps = {3, 4}
  HistorySize = 2
  BankReads = 2
  Disorder = 2
  HScalerSetups <- MCScalerSetups
  Turn = 4
  Threshold = 1
  fOnlySyncEvents = TRUE
  PartialReads = FALSE
  MaxStep = 3
  MaxReads = 3
  MaxDelayed = 2
  Tdcs = {Tdc1, Tdc2}
  fResync = TRUE
  NoiseAtSync = FALSE
  MaxEvents = 7
  MaxSlips = 2
  StatFadcs <- MCStatFadcs
  StatTdcs <- MCStatTdcs
  Rocs = {1, 2}
  TimeWrap = 8
  CountMask = 64
  Base <- MCBase
  StatSetups <- MCStatSetups
SPECIFICATION MCSpec
INVARIANTS Types SetupIsTheFiles BanksAreSent TimeIsTrue LinesAreTrue HelicityIsTrue TotalsAreTrue FileIsCorrected SlipsAreCounted HitsAreTheEvent ReferencesAreTrue
PROPERTIES QuartetIsWholeUnlessLost
CHECK_DEADLOCK FALSE
