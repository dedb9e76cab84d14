\* Blocks that stay inside one image of the work RAM.
CONSTANTS
    Phys <- MCPhys
    Slots <- MCSlots
    CodeAddrs <- MCCodeAddrs
    StoreAddrs <- MCStoreAddrs
    StoreLens = {1, 2}
    TagCells = 1
    DataCells = 1
    ChunkCells = 2
    Linear = {op}
    Delayed = {jmp}
    Enders = {zero}
    OpenWord = zero
    MaxBlock = 2

SPECIFICATION Spec

INVARIANTS
    StaleIsQueued
    ChunksWatched

PROPERTIES
    EntersCurrentCode
    ImplementsFreshFetch
