\* Nesting handlers and the offer of interrupts, with one DMA channel.
CONSTANTS
    Bits <- MCBits
    Level <- MCLevel
    EventBits = {0}
    Channels = {2}
    EndBit <- MCEndBit
    Software = 7
    ResetFactor = 0
    Trap = 32
    Masks = {0, 6, 15}
    Enables <- MCEnables
    Disciplined = TRUE
    MaxTraps = 1

SPECIFICATION Spec

INVARIANTS
    NothingDeliverable
    NestingRises

\* The machine stops at an illegal instruction.
CHECK_DEADLOCK FALSE
