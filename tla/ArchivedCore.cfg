\* The first emulator, one component at a time.
CONSTANTS
    Cores = {a, b, c}
    Slack = 1
    Controlled = {}
    MaxCycles = 3
    Threads = {t1, t2}
    Stripes = 2
    StripeBytes = 2
    Offsets = {1, 3}
    Widths = {1, 2}
    Producers = {m1, m2}
    IrqProducers = {"master", "core6"}
    IrqRaises <- MCIrqRaises
    IrqMasks <- MCIrqMasks
    ByBytes = TRUE
    Levels = 2
    Lists <- MCLists
    Direct <- MCDirect
    PassBudget = 1
    Burst = 1
    ChaseGuard = 2
    JumpLength = 4
    JumpConditions = {"always"}
    JumpTargets = {2}
    CallTargets = {3}
    Wrap = 64
    TimerBatch = 4
    Rates = {7, 6}
    LinesPerFrame = 5
    BlankLine = 3
    CommandLine = 2
    MatchLine = 2
    Costs = {1, 3}
    CatchUps <- MCCatchUps
    Uptimes = {0, 9}
    LineCycles = 7
    Delays = {5, 11}
    FrameHistory = 40
    Presets = {3}
    TimerHistory = 12
    ReportedKinds = {"pad", "none", "gun", "mouse", "twin"}
    ReportedPresses <- MCReportedPresses
    ReportedAngles = {101}
    PolledKinds = {"pad", "wheel", "none"}
    PolledPresses <- MCPolledPresses
    PolledAngles = {103, 104, 151}
    Patterns = {0, 96, 255}
    Methods = {0, 96, 224}
    SmpcWriters = {"master"}
    SmpcCommands = {"INTBACK", "SETSMEM", "RESENAB", "MSHON"}
    MAX_BLOCKS = 2
    Partitions = {p1, p2}
    SectorSizes = {2}
    MaxCount = 2
    \* Periods in units of 3333 microseconds, the poll shortened.
    VBlankPeriod = 5
    AudioPeriod = 4
    DataPeriod = 2
    IdlePeriod = 5
    PollPeriod = 12
    Disc <- MCDisc
    LeadOut = 6
    Files <- MCFiles
    MaxFree = 1
    MaxCommands = 2
    Root = 18
    Directories <- MCDirectories

SPECIFICATION SuiteSpec

CHECK_DEADLOCK FALSE

INVARIANTS
    NoLostWakeup
    NothingIsLost
    ThreadsShareSafely
    ScuIsExact
    PeripheralsAreExact
    CdBlockIsExact

PROPERTIES
    ArchivedStepsKeepTheirRules
