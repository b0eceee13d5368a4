CONSTANT MaxSeconds = 7300
SPECIFICATION Spec
INVARIANT ToolboxTypeOK
INVARIANT FormattedTimeRoundsUp
CHECK_DEADLOCK FALSE
