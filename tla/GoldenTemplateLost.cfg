\* Two builds: the first dies, the second replaces its snapshot.
CONSTANT MaxRuns = 2
SPECIFICATION Spec
INVARIANT PristineNeverLost
CHECK_DEADLOCK FALSE
