\* The devices of the live emulator, one at a time.
CONSTANTS
    \* The JIT's pacing: 5/13 is about 112896/286364, 17/5 plays 8.97 cycles.
    Num = 5
    Den = 13
    MinBatch = 6
    AvgNum = 17
    AvgDen = 5
    LongestInsn = 4
    CyclesPerSample = 7
    Profiling = FALSE
    MayStop = FALSE
    BlockCycles = {1, 3, 8}
    MaxClock = 120
    \* The drive: two periods.
    CdBatch = 3
    CdPeriod = 8
    CdSteps = {0, 1, 2, 5}
    CdMaxClock = 17
    Timers = {6, 7}
    SampleBit = 10
    SharedBit = 7
    SoundTick = 2
    Top = 3
    Prescalers = {0, 1}
    LevelMaps <- MCLevels
    EnableMasks = {{6, 7, 10}}
    BatchSamples = {1}
    Slots = {1, 2}
    One = 1
    PitchSteps = {1, 2}
    LoopStarts = {1}
    LoopEnds = {2}
    LoopModes = {0, 1}
    Hold = 1
    FullGain = 1
    \* A count of zero means 16 bytes; a list is cut after three entries.
    Cells = 16
    Width = 16
    BBus = {12, 13, 14, 15}
    MaxCount = 16
    ListLimit = 2
    WriteAdds = {0, 1, 2}
    Counts = {0, 6}
    Memories <- MCMemories
    Addresses = {0, 13}

SPECIFICATION SuiteSpec

CHECK_DEADLOCK FALSE

INVARIANTS
    NeverAhead
    CyclesAreConserved
    ClocksAreKept
    SoundIsAsSent
    TransfersAreExact

PROPERTIES
    DevicesKeepTheirRules
