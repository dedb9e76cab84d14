----------------------------- MODULE GuestMemory -----------------------------
(***************************************************************************)
(* What an SH-2 program can fetch from and store to: the segment decoding  *)
(* of cpu/address_space.rs over the slots and mirrors of bus/system_bus.rs,*)
(* and the shape of the block of instructions that the JIT backend         *)
(* translates in one go.                                                   *)
(*                                                                         *)
(* The unit is one 16-bit instruction, called a cell: address a stands for *)
(* the two bytes at 2*a.  Only memories are slots here (ROM, RAM, VRAM);   *)
(* the register devices have no code in them and are other modules' work.  *)
(***************************************************************************)
EXTENDS Integers, Sequences, FiniteSets

CONSTANTS
    Phys,        \* cells of the physical address space (2^28 on the machine)
    Slots,       \* the memories mapped on the system bus
    TagCells,    \* cells of the cache address array, segment 3
    DataCells,   \* cells of the cache data array, segment 6
    ChunkCells,  \* cells of one chunk of code tracking (1 << CODE_SHIFT bytes)
    Linear,      \* instructions after which a block goes on
    Delayed,     \* branches that take a delay slot
    Enders,      \* branches without a slot, and instructions that end a block
    OpenWord,    \* what a fetch from nowhere returns (0x0000, an illegal one)
    MaxBlock     \* MAX_BLOCK_INSNS

Words == Linear \cup Delayed \cup Enders

SlotType == [base : Nat, len : Nat, mirror : Nat \ {0},
             tracked : BOOLEAN, writable : BOOLEAN]

\* What SystemBus::map asserts of its slots (no overlap, a base on a page of
\* 64 KiB and so on a chunk), and that the window holds the memory at least once.
ASSUME SlotsAssumption ==
    /\ Slots \subseteq SlotType
    /\ \A s \in Slots : s.mirror <= s.len /\ s.base + s.len <= Phys
    /\ \A s, t \in Slots :
          s # t => s.base + s.len <= t.base \/ t.base + t.len <= s.base
    /\ \A s \in Slots : s.tracked => s.base % ChunkCells = 0

ASSUME SizesAssumption ==
    /\ Phys \in Nat \ {0}
    /\ TagCells \in Nat \ {0}
    /\ DataCells \in Nat \ {0}
    /\ ChunkCells \in Nat \ {0}
    /\ MaxBlock \in Nat \ {0}

ASSUME WordsAssumption ==
    /\ OpenWord \in Enders
    /\ Linear \cap Delayed = {}
    /\ Linear \cap Enders = {}
    /\ Delayed \cap Enders = {}

-----------------------------------------------------------------------------
(* Addresses. *)

Segment(a)  == a \div Phys          \* addr >> 29
Physical(a) == a % Phys             \* addr & 0x1FFF_FFFF

\* Segments that reach the system bus: cached, cache-through and I/O.
BusSegments == {0, 1, 7}

Inside(s, p) == s.base <= p /\ p < s.base + s.len

Mapped(p) == \E s \in Slots : Inside(s, p)

SlotAt(p) == CHOOSE s \in Slots : Inside(s, p)

\* The cell of slot s that stands n cells after the one p selects.
SlotCell(s, p, n) == s.base + ((p - s.base + n) % s.mirror)

Canonical(p) == IF Mapped(p) THEN SlotCell(SlotAt(p), p, 0) ELSE p

BusCells  == UNION {{<<"bus", c>> : c \in s.base .. s.base + s.mirror - 1} : s \in Slots}
TagArray  == {<<"tag", i>> : i \in 0 .. TagCells - 1}
DataArray == {<<"data", i>> : i \in 0 .. DataCells - 1}

Cells == BusCells \cup TagArray \cup DataArray

NoCell == <<"none", 0>>

\* Power on: the ROM image, and every RAM and array filled with zeros.
RomCells == UNION {{<<"bus", c>> : c \in s.base .. s.base + s.mirror - 1} :
                      s \in {t \in Slots : ~t.writable}}

PowerOn == {[c \in Cells |-> IF c \in RomCells THEN rom[c] ELSE OpenWord] :
               rom \in [RomCells -> Words]}

\* The access selects a memory of the system bus.
OnBus(a) == Segment(a) \in BusSegments /\ Mapped(Physical(a))

\* The cell reached n cells after address a by one access that starts at a: the
\* access picks its device once and wraps inside it.
CellFrom(a, n) ==
    IF OnBus(a) THEN <<"bus", SlotCell(SlotAt(Physical(a)), Physical(a), n)>>
    ELSE IF Segment(a) = 3 THEN <<"tag", (Physical(a) + n) % TagCells>>
    ELSE IF Segment(a) = 6 THEN <<"data", (Physical(a) + n) % DataCells>>
    ELSE NoCell

Fetch(m, a) == IF CellFrom(a, 0) = NoCell THEN OpenWord ELSE m[CellFrom(a, 0)]

-----------------------------------------------------------------------------
(* Stores. *)

Stores(n) == [0 .. n - 1 -> Words]

\* note_write indexes the code bits by the last byte written without wrapping:
\* a store past the end of a tracked memory stops the emulator there.
InBounds(a, n) ==
    OnBus(a) /\ SlotAt(Physical(a)).tracked =>
        LET s == SlotAt(Physical(a))
        IN  ((Physical(a) - s.base) % s.mirror) + n <= s.mirror

\* A store to a ROM, or to no device, changes nothing.
Takes(a) == CellFrom(a, 0) # NoCell /\ (OnBus(a) => SlotAt(Physical(a)).writable)

\* The memory after the words v[0], v[1], ... are stored from address a on.
StoreAt(m, a, n, v) ==
    IF Takes(a)
    THEN [c \in DOMAIN m |->
            IF \E k \in 0 .. n - 1 : CellFrom(a, k) = c
            THEN v[CHOOSE k \in 0 .. n - 1 : CellFrom(a, k) = c]
            ELSE m[c]]
    ELSE m

-----------------------------------------------------------------------------
(* Blocks. *)

\* The instructions of one block: linear ones up to a branch, which brings its
\* delay slot along whatever it holds, or up to an ender, or up to MaxBlock.
IsBlock(ws) ==
    \E k \in 1 .. MaxBlock :
        /\ k <= Len(ws)
        /\ \A i \in 1 .. k - 1 : ws[i] \in Linear
        /\ ws[k] \in Linear => k = MaxBlock
        /\ Len(ws) = IF ws[k] \in Delayed THEN k + 1 ELSE k

\* Compiling from pc fetches exactly these words.
WordsFrom(m, pc, n) == [i \in 1 .. n |-> Fetch(m, pc + i - 1)]

=============================================================================
