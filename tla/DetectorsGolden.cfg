SPECIFICATION MCSpec
INVARIANTS SelectedIsGolden
CHECK_DEADLOCK FALSE
