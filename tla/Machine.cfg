\* Interrupts, sleep and a DMA channel against the video clock.
CONSTANTS
    Bits <- MCBits
    Level <- MCLevel
    EventBits = {0, 1, 2, 13}
    Channels = {0}
    EndBit <- MCEndBit
    Software = 7
    ResetFactor = 0
    CyclesPerLine = 5
    LinesPerFrame = 3
    ActiveLines = 2
    HBlankStart = 3
    BlockCycles = {2}
    FrameWidth = 2
    VBlankIn = 0
    VBlankOut = 1
    HBlankIn = 2
    SpriteEnd = 13
    SystemManager = 7
    Trap = 32
    Masks = {0}
    Enables <- ArmOnly
    ImsValues <- MCImsValues
    IstValues <- NoValues
    Program = {"sleep", "trap"}
    MaxTraps = 1
    SleepCycles = 2

SPECIFICATION Spec

INVARIANTS
    FlagsFollowClock
    EachFrameShownOnce
    TransfersRunInTheirBlank
    SleepsAtMostAFrame

PROPERTY
    ImplementsInterrupts

\* The machine stops at an illegal instruction.
CHECK_DEADLOCK FALSE
