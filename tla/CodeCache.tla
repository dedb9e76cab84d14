------------------------------ MODULE CodeCache ------------------------------
(***************************************************************************)
(* The cache of translated blocks (cpu/jit/mod.rs) together with the code  *)
(* tracking of the system bus (bus/system_bus.rs) that keeps it coherent.  *)
(*                                                                         *)
(* Translating a block marks the chunks its instructions came from; a      *)
(* store into a marked chunk takes the mark away and queues the chunk as   *)
(* dirty; the next dispatch drains the queue and drops every block that    *)
(* overlaps a dirty chunk.  Between the store and that dispatch the cache  *)
(* holds blocks that no longer match the memory.                           *)
(***************************************************************************)
EXTENDS GuestMemory

CONSTANTS
    CodeAddrs,   \* the addresses at which blocks are entered
    StoreAddrs,  \* the addresses stored to
    StoreLens    \* the sizes of stores, in cells

ASSUME AccessAssumption ==
    /\ CodeAddrs \subseteq Nat
    /\ StoreAddrs \subseteq Nat
    /\ StoreLens \subseteq 1 .. ChunkCells

VARIABLES
    mem,     \* what the memories hold
    marked,  \* chunks with their code bit set (Slot.code_bits)
    dirty,   \* chunks queued for invalidation (SystemBus.dirty)
    blocks,  \* the translated blocks by entry address (Sh2Jit.blocks)
    trace,   \* Sh2Jit.trace
    run      \* the block being executed, Idle between two blocks

vars == <<mem, marked, dirty, blocks, trace, run>>

Idle == [pc |-> 0, words |-> <<>>, traced |-> FALSE, done |-> 0]

ChunkOf(c) == c \div ChunkCells

-----------------------------------------------------------------------------
(* The operations of the bus on code chunks. *)

\* Mutant: only the chunk of the first instruction is marked.
MarkFirstChunk(c, n) == IF Mapped(c) /\ SlotAt(c).tracked THEN {ChunkOf(c)} ELSE {}

\* mark_code: the chunks of the range [c, c + n), cut at the end of the memory
\* that holds its start; nothing when that memory is not tracked.
MarkCode(c, n) ==
    IF Mapped(c) /\ SlotAt(c).tracked
    THEN LET end  == SlotAt(c).base + SlotAt(c).mirror - 1
             last == IF c + n - 1 <= end THEN c + n - 1 ELSE end
         IN  ChunkOf(c) .. ChunkOf(last)
    ELSE {}

\* Mutant: the chunks of the image that was written.
NoteWriteUnmirrored(a, n) ==
    IF OnBus(a) /\ SlotAt(Physical(a)).tracked
    THEN {ChunkOf(Physical(a) + k) : k \in {0, n - 1}}
    ELSE {}

\* note_write: the chunks of the first and of the last byte of a store.
NoteWrite(a, n) ==
    IF OnBus(a) /\ SlotAt(Physical(a)).tracked
    THEN {ChunkOf(SlotCell(SlotAt(Physical(a)), Physical(a), k)) : k \in {0, n - 1}}
    ELSE {}

\* A store through SystemBus::write or through the cache arrays.
Store(a, n) ==
    LET hit == NoteWrite(a, n) \cap marked
    IN  /\ InBounds(a, n)
        /\ \E v \in Stores(n) : mem' = StoreAt(mem, a, n, v)
        /\ marked' = marked \ hit
        /\ dirty' = dirty \cup hit

-----------------------------------------------------------------------------
(* The block cache. *)

\* Mutant: a block is dropped only for the chunk it begins in.
OverlapsAtStart(b, chunks) == ChunkOf(b.canon) \in chunks

\* Entry.canon_start <= cell < Entry.canon_end meets a dirty range.
Overlaps(b, chunks) ==
    \E k \in chunks : b.canon < (k + 1) * ChunkCells /\ k * ChunkCells < b.canon + Len(b.words)

\* Mutant: nothing is dropped.
AllBlocks == DOMAIN blocks

\* invalidate: the entries that survive the queued dirty chunks.
Survivors == {pc \in DOMAIN blocks : ~Overlaps(blocks[pc], dirty)}

\* compile: the entry that the cache keeps.
Translation(pc, ws) == [words |-> ws, canon |-> Canonical(Physical(pc)), traced |-> trace]

Running(pc, b) == [pc |-> pc, words |-> b.words, traced |-> b.traced, done |-> 0]

Init ==
    /\ mem \in PowerOn
    /\ marked = {}
    /\ dirty = {}
    /\ blocks = [pc \in {} |-> Idle]
    /\ trace = FALSE
    /\ run = Idle

\* run_block when the cache still has the block after the invalidation.
DispatchHit(pc) ==
    /\ run = Idle
    /\ pc \in Survivors
    /\ dirty' = {}
    /\ blocks' = [x \in Survivors |-> blocks[x]]
    /\ run' = Running(pc, blocks[pc])
    /\ UNCHANGED <<mem, marked, trace>>

\* run_block when the block has to be translated first.
DispatchMiss(pc) ==
    /\ run = Idle
    /\ pc \notin Survivors
    /\ dirty' = {}
    /\ \E n \in 1 .. MaxBlock + 1 :
          LET b == Translation(pc, WordsFrom(mem, pc, n))
          IN  /\ IsBlock(b.words)
              /\ marked' = marked \cup MarkCode(b.canon, n)
              /\ blocks' = [x \in Survivors \cup {pc} |-> IF x = pc THEN b ELSE blocks[x]]
              /\ run' = Running(pc, b)
    /\ UNCHANGED <<mem, trace>>

\* One instruction of the translated block; any of them may store.
Execute ==
    /\ run # Idle
    /\ run.done < Len(run.words)
    /\ run' = [run EXCEPT !.done = @ + 1]
    /\ \/ UNCHANGED <<mem, marked, dirty>>
       \/ \E a \in StoreAddrs, n \in StoreLens : Store(a, n)
    /\ UNCHANGED <<blocks, trace>>

\* The block returns the next pc to the dispatcher.
Leave ==
    /\ run # Idle
    /\ run.done = Len(run.words)
    /\ run' = Idle
    /\ UNCHANGED <<mem, marked, dirty, blocks, trace>>

\* A DMA, the SCU DSP or the entry of an exception stores between two blocks.
StoreBetweenBlocks ==
    /\ run = Idle
    /\ \E a \in StoreAddrs, n \in StoreLens : Store(a, n)
    /\ UNCHANGED <<blocks, trace, run>>

\* set_trace with a new value.
SetTrace ==
    /\ run = Idle
    /\ trace' = ~trace
    /\ blocks' = [pc \in {} |-> Idle]
    /\ UNCHANGED <<mem, marked, dirty, run>>

Next ==
    \/ \E pc \in CodeAddrs : DispatchHit(pc) \/ DispatchMiss(pc)
    \/ Execute
    \/ Leave
    \/ StoreBetweenBlocks
    \/ SetTrace

Spec == Init /\ [][Next]_vars

-----------------------------------------------------------------------------
(* Properties. *)

\* The block of n cells entered at pc lies in one image of one memory, and that
\* memory is tracked or cannot be written.
Guarded(pc, n) ==
    /\ Segment(pc) \in BusSegments
    /\ Segment(pc + n - 1) = Segment(pc)
    /\ \E s \in Slots :
          /\ s.tracked \/ ~s.writable
          /\ Inside(s, Physical(pc))
          /\ Inside(s, Physical(pc + n - 1))
          /\ ((Physical(pc) - s.base) % s.mirror) + n <= s.mirror

Current(m, pc, ws) == \A i \in 1 .. Len(ws) : ws[i] = Fetch(m, pc + i - 1)

\* Every entry is a well-formed block of the address it is filed under.
TypeOK ==
    /\ mem \in [Cells -> Words]
    /\ marked \subseteq Nat
    /\ dirty \subseteq Nat
    /\ trace \in BOOLEAN
    /\ DOMAIN blocks \subseteq CodeAddrs
    /\ \A pc \in DOMAIN blocks :
          /\ blocks[pc] \in [words : Seq(Words), canon : Nat, traced : BOOLEAN]
          /\ IsBlock(blocks[pc].words)
          /\ blocks[pc].canon = Canonical(Physical(pc))
    /\ run \in [pc : Nat, words : Seq(Words), traced : BOOLEAN, done : Nat]
    /\ run.done <= Len(run.words)

\* A cached block whose instructions were overwritten through any mirror, by
\* the CPU or by a DMA, is already queued: it never reaches the dispatch.
StaleIsQueued ==
    \A pc \in DOMAIN blocks :
        LET b == blocks[pc]
        IN  Guarded(pc, Len(b.words)) /\ ~Current(mem, pc, b.words) => Overlaps(b, dirty)

\* Every chunk a cached block came from is watched: its bit is set or it is in
\* the queue, also when another block's eviction consumed the bit.
ChunksWatched ==
    \A pc \in DOMAIN blocks :
        LET b == blocks[pc]
        IN  Guarded(pc, Len(b.words)) =>
                MarkCode(b.canon, Len(b.words)) \subseteq marked \cup dirty

\* No block translated in the other trace mode is left in the cache.
TraceModeIsUniform == \A pc \in DOMAIN blocks : blocks[pc].traced = trace

\* Entering a block runs the instructions the memory holds at that moment.
EntersCurrentCode ==
    [][run = Idle /\ run' # Idle /\ Guarded(run'.pc, Len(run'.words))
          => Current(mem, run'.pc, run'.words)]_vars

\* The same for every block whose instructions all come from tracked memory,
\* wherever it lies: bus/system_bus.rs:48 says that track_code "habilita a
\* invalidacao de blocos JIT quando esta memoria for sobrescrita".
FromTracked(pc, n) ==
    \A i \in 0 .. n - 1 : OnBus(pc + i) /\ SlotAt(Physical(pc + i)).tracked

TrackedCodeIsCurrent ==
    [][run = Idle /\ run' # Idle /\ FromTracked(run'.pc, Len(run'.words))
          => Current(mem, run'.pc, run'.words)]_vars

\* Programs whose code stays where the tracking can see all of it.
GuardedCode == \A pc \in CodeAddrs, n \in 1 .. MaxBlock + 1 : Guarded(pc, n)

Fresh == INSTANCE FreshFetch

\* The cache cannot be told from translating every block anew.
ImplementsFreshFetch == Fresh!Spec

=============================================================================
