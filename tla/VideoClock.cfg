\* The clock against the timeline, over four frames of a counter that wraps at two.
CONSTANTS
    CyclesPerLine = 5
    LinesPerFrame = 5
    ActiveLines = 3
    HBlankStart = 3
    BlockCycles = {1, 2, 3, 4, 5, 6, 7, 8, 9, 10, 11, 28}
    FrameWidth = 2
    MaxClock = 100

SPECIFICATION Spec

\* The exploration stops at MaxClock.
CHECK_DEADLOCK FALSE

INVARIANTS
    CyclesAreConserved
    EmitsTheTimeline
    PositionFollowsClock
