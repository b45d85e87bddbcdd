SPECIFICATION MCSpec
INVARIANTS Types NothingStale PedestalsAreCurrent PulsesAreChosen TimesAreTrue GoodHitsMatch ClustersAreTrue BestTrackIsBest CoincidenceIsTrue BeamIsTrue
PROPERTIES EfficienciesAreTrue
CHECK_DEADLOCK FALSE
