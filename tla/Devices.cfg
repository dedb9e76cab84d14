\* The requests of the VDP1 and the SMPC, written by blocks and by transfers.
CONSTANTS
    Bits <- MCBits
    Level <- MCLevel
    EventBits = {0, 1, 2, 13}
    Channels = {0}
    EndBit <- MCEndBit
    Software = 7
    ResetFactor = 0
    CyclesPerLine = 5
    LinesPerFrame = 3
    ActiveLines = 2
    HBlankStart = 3
    BlockCycles = {2}
    FrameWidth = 1
    VBlankIn = 0
    VBlankOut = 1
    HBlankIn = 2
    SpriteEnd = 13
    SystemManager = 7
    Trap = 32
    Masks = {15}
    Enables <- StartOnly
    ImsValues <- NoValues
    IstValues <- MCIstValues
    Program = {"draw", "intback", "sound"}
    MaxTraps = 1
    SleepCycles = 2

SPECIFICATION Spec

INVARIANTS
    SoundFollowsCommand

PROPERTIES
    PollingAgrees
    DrawingEnds

\* The machine stops at an illegal instruction.
CHECK_DEADLOCK FALSE
