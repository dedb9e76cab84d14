\* Blocks at the end of one image of the work RAM, which wrap into the next.
CONSTANTS
    Phys <- MCPhys
    Slots <- MCSlots
    CodeAddrs <- WrapCodeAddrs
    StoreAddrs <- MCStoreAddrs
    StoreLens = {1, 2}
    TagCells = 1
    DataCells = 1
    ChunkCells = 2
    Linear = {op}
    Delayed = {jmp}
    Enders = {zero}
    OpenWord = zero
    MaxBlock = 2

SPECIFICATION Spec

PROPERTY
    TrackedCodeIsCurrent
