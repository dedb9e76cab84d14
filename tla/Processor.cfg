\* Registers of four bits.
CONSTANTS
    ByteBits = 1
    Regs = {0, 1, 2, 3}

SPECIFICATION SuiteSpec

CHECK_DEADLOCK FALSE

INVARIANTS
    ProgramsCompute
    InterpretersAgree
    WordsHaveOneMeaning
    BlocksAreTheirInstructions
    OnChipIsExact
