\* Two DMA channels that share a level, started by software or by VBlank-in.
CONSTANTS
    Bits <- MCBits
    Level <- MCLevel
    EventBits = {0}
    Channels = {1, 2}
    EndBit <- MCEndBit
    Software = 7
    ResetFactor = 0
    Trap = 32
    Masks = {0, 15}
    Enables <- MCEnables
    Disciplined = TRUE
    MaxTraps = 0

SPECIFICATION FairSpec

INVARIANTS
    ReadyAreArmed

PROPERTY
    StartedTransfersReport

\* The machine stops at an illegal instruction.
CHECK_DEADLOCK FALSE
