CONSTANT MaxSeconds = 7300
SPECIFICATION Spec
CHECK_DEADLOCK FALSE
INVARIANT FormattedTimeIsClockTime
