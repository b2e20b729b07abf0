\* Two arrivals of any work, two errors.
CONSTANTS
    MaxArrivals = 2
    MaxErrors = 2
SPECIFICATION Spec
INVARIANTS
    StoppedIsTrue
    RunKeepsItsFeed
PROPERTIES
    ShutdownEnds
    WorkIsTaken
CHECK_DEADLOCK FALSE
