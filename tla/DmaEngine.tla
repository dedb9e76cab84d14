----------------------------- MODULE DmaEngine ------------------------------
(***************************************************************************)
(* DMA of the first emulator's SCU (archived scu.rs): how the master and   *)
(* Core 6 work a level off together, and what the units of a direct        *)
(* transfer move.                                                          *)
(***************************************************************************)
EXTENDS Integers, Sequences

CONSTANTS
    Levels,      \* 3: levels are 0 .. Levels - 1
    Lists,       \* what a transfer can be: its descriptors' unit counts
    Direct,      \* the lists that are direct transfers, of one count
    PassBudget,  \* DMA_BUDGET_PER_PASS
    Burst,       \* 128: units run at once when a transfer starts
    ChaseGuard,  \* 4096: empty descriptors passed over at a time
    Transfers,  \* what the program sets up
    Pokes       \* addresses the program may write while a fill runs

VARIABLES
    dma,      \* the three DmaLevel: units left, descriptors to come, flags
    armed,    \* DxEN bit 8: the level starts on its factor
    at,       \* where Core 6 is in a pass, and the level it serves
    budget,   \* units Core 6 may still run for it
    copy,     \* the copy of the level it works on
    disarms,  \* clear_den: the level being started was started by its factor
    flushing, \* 0 or the level + 1 being run to its end before a retrigger
    started,  \* history: transfers started that have not raised their end
    found,    \* the level the master has found armed and not marked yet
    mem,    \* the bytes written so far: where their contents came from
    moving,    \* read, write, left, and the adds of the level
    fill,   \* the long a constant source is read as, or <<>>
    transfer,  \* history: the transfer
    early   \* history: the memory when it was set up

-----------------------------------------------------------------------------
(***************************************************************************)
(* The engine. The master marks a level pending, Core 6 snapshots its      *)
(* registers and works the transfer off in passes. Core 6 copies the level *)
(* out under the lock, works on the copy and stores all of it back, so     *)
(* that what the master marks in between is overwritten. A transfer is a   *)
(* list of descriptors, each a number of units.                            *)
(***************************************************************************)

DmaEngineAssumption ==
    /\ Levels \in Nat \ {0}
    /\ Lists \subseteq Seq(Nat) \ {<<>>} /\ Direct \subseteq Lists
    /\ \A l \in Direct : Len(l) = 1
    /\ PassBudget \in Nat \ {0} /\ Burst \in Nat \ {0} /\ ChaseGuard \in Nat

Level == 0 .. Levels - 1

engineVars == <<dma, armed, at, budget, copy, disarms, flushing, found, started>>

Nowhere == -1

Idle == [left |-> 0, rest |-> <<>>, direct |-> FALSE, pending |-> FALSE, clear |-> FALSE]

EngineInit ==
    /\ dma = [l \in Level |-> Idle]
    /\ armed = [l \in Level |-> FALSE]
    /\ at = [step |-> "parked", level |-> 0]
    /\ budget = 0
    /\ copy = Idle
    /\ disarms = FALSE
    /\ flushing = 0
    /\ started = [l \in Level |-> 0]
    /\ found = Nowhere

\* dma_active: a level is busy or pending.
Active == \E l \in Level : dma[l].left # 0 \/ dma[l].pending

-----------------------------------------------------------------------------
\* The master writes DxEN with the go bit, the level being in immediate mode.
RequestTrigger(l) ==
    /\ found = Nowhere
    /\ dma' = [dma EXCEPT ![l].pending = TRUE]
    /\ armed' = [armed EXCEPT ![l] = FALSE]
    /\ UNCHANGED <<at, budget, copy, disarms, flushing, found, started>>

\* The master writes DxEN with the enable bit alone, the level having a factor.
Arm(l) ==
    /\ found = Nowhere
    /\ armed' = [armed EXCEPT ![l] = TRUE]
    /\ UNCHANGED <<dma, at, budget, copy, disarms, flushing, found, started>>

\* A source of interrupts finds the level armed for its factor, and marks it: the
\* registers and the levels have a lock each.
FindArmed(l) ==
    /\ found = Nowhere /\ armed[l]
    /\ found' = l
    /\ UNCHANGED <<dma, armed, at, budget, copy, disarms, flushing, started>>

MarkByFactor ==
    /\ found # Nowhere
    /\ dma' = [dma EXCEPT ![found].pending = TRUE, ![found].clear = TRUE]
    /\ found' = Nowhere
    /\ UNCHANGED <<armed, at, budget, copy, disarms, flushing, started>>

-----------------------------------------------------------------------------
At(step, l) == at = [step |-> step, level |-> l]

GoTo(step, l) == at' = [step |-> step, level |-> l]

\* Core 6 begins a pass while there is work.
BeginPass ==
    /\ at.step = "parked" /\ Active
    /\ GoTo("pending?", 0)
    /\ UNCHANGED <<dma, armed, budget, copy, disarms, flushing, found, started>>

Flushes(l) == dma[l].left # 0

\* service_trigger: nothing to start, or a busy level is flushed first (with the
\* two others), or it is started.
LookPending(l) ==
    /\ At("pending?", l)
    /\ IF ~dma[l].pending
       THEN GoTo("run", l) /\ budget' = PassBudget /\ UNCHANGED flushing
       ELSE IF Flushes(l)
       THEN GoTo("flush", l) /\ flushing' = 1 /\ UNCHANGED budget
       ELSE GoTo("start", l) /\ UNCHANGED <<budget, flushing>>
    /\ UNCHANGED <<dma, armed, copy, disarms, found, started>>

\* service_trigger reads the flag of the factor under a lock of its own.
ReadDen(l) ==
    /\ At("start", l)
    /\ disarms' = dma[l].clear
    /\ GoTo("snapshot", l)
    /\ UNCHANGED <<dma, armed, budget, copy, flushing, found, started>>

\* snapshot_and_start puts a fresh level in the place of the old one, and of what
\* the master has marked since.
Start(l) ==
    /\ At("snapshot", l)
    /\ \E list \in Lists :
           dma' = [dma EXCEPT ![l] =
               [left |-> list[1], rest |-> Tail(list), direct |-> list \in Direct,
                pending |-> FALSE, clear |-> FALSE]]
    /\ started' = [started EXCEPT ![l] = @ + 1]
    /\ GoTo("started", l)
    /\ UNCHANGED <<armed, budget, copy, disarms, flushing, found>>

\* The flag is taken back once more, and a start by factor disarms the level.
Started(l) ==
    /\ At("started", l)
    /\ dma' = [dma EXCEPT ![l].pending = FALSE]
    /\ armed' = [armed EXCEPT ![l] = @ /\ ~disarms]
    /\ GoTo("burst", l) /\ budget' = Burst
    /\ UNCHANGED <<copy, disarms, flushing, found, started>>

-----------------------------------------------------------------------------
Running == at.step \in {"run", "burst", "flush"}

\* The level run_level works on: while flushing it is each of the three in turn.
Served == IF at.step = "flush" THEN flushing - 1 ELSE at.level

\* run_level copies the level out if it has budget and the level is busy.
CopyOut ==
    /\ Running
    /\ at.step = "flush" \/ budget > 0
    /\ dma[Served].left # 0
    /\ copy' = dma[Served]
    /\ at' = [at EXCEPT !.step = CASE @ = "run" -> "run unit" [] @ = "burst" -> "burst unit"
                                  [] OTHER -> "flush unit"]
    /\ UNCHANGED <<dma, armed, budget, disarms, flushing, found, started>>

\* After a unit: a finished descriptor is followed by the next that is not
\* empty, through ChaseGuard of them at most.  A direct transfer, the end of the
\* list, or the guard ends the transfer.
Chased(c) ==
    LET skips == {n \in 0 .. Len(c.rest) : \A i \in 1 .. n - 1 : c.rest[i] = 0}
        n == CHOOSE n \in skips : \A k \in skips : k <= n
        last == IF n <= ChaseGuard THEN n ELSE ChaseGuard
    IN IF c.left # 0 THEN [level |-> c, ended |-> FALSE]
       ELSE IF last = 0 THEN [level |-> c, ended |-> TRUE]
       ELSE [level |-> [c EXCEPT !.left = c.rest[last],
                                 !.rest = SubSeq(c.rest, last + 1, Len(c.rest))],
             ended |-> c.rest[last] = 0]

StepAfterUnit == CASE at.step = "run unit" -> "run" [] at.step = "burst unit" -> "burst"
                   [] OTHER -> "flush"

\* A unit on the copy, and the whole copy stored over the level.
Unit ==
    /\ at.step \in {"run unit", "burst unit", "flush unit"}
    /\ LET done == Chased([copy EXCEPT !.left = @ - 1])
           l == IF at.step = "flush unit" THEN flushing - 1 ELSE at.level
       IN /\ dma' = [dma EXCEPT ![l] = done.level]
          /\ started' = [started EXCEPT ![l] = IF done.ended THEN @ - 1 ELSE @]
    /\ budget' = IF at.step = "flush unit" THEN budget ELSE budget - 1
    /\ at' = [at EXCEPT !.step = StepAfterUnit]
    /\ copy' = Idle
    /\ UNCHANGED <<armed, disarms, flushing, found>>

AfterLevel(l) == IF l < Levels - 1 THEN GoTo("pending?", l + 1) ELSE GoTo("parked", 0)

MoreToFlush(n) == n < Levels

\* run_level returns: the flush goes to the next level and then to the start,
\* the burst is followed by the level's share of the pass, and that by the next
\* level.
Return ==
    /\ Running
    /\ dma[Served].left = 0 \/ (at.step # "flush" /\ budget = 0)
    /\ CASE at.step = "flush" ->
               IF MoreToFlush(flushing)
               THEN flushing' = flushing + 1 /\ UNCHANGED <<at, budget>>
               ELSE flushing' = 0 /\ GoTo("start", at.level) /\ UNCHANGED budget
         [] at.step = "burst" ->
               GoTo("run", at.level) /\ budget' = PassBudget /\ UNCHANGED flushing
         [] at.step = "run" ->
               /\ AfterLevel(at.level)
               /\ budget' = 0
               /\ UNCHANGED flushing
    /\ UNCHANGED <<dma, armed, copy, disarms, found, started>>

Core6 ==
    \/ BeginPass
    \/ \E l \in Level : LookPending(l) \/ ReadDen(l) \/ Start(l) \/ Started(l)
    \/ CopyOut
    \/ Unit
    \/ Return

EngineNext ==
    \/ \E l \in Level : RequestTrigger(l) \/ Arm(l) \/ FindArmed(l)
    \/ MarkByFactor
    \/ Core6

-----------------------------------------------------------------------------
\* Every transfer that is started raises one end, at its end: none is cut off by
\* a new start and none announces its descriptors (service_trigger's flush,
\* run_level's chase, raise_dma_end).
OneEndEach ==
    \A l \in Level : started[l] = IF dma[l].left # 0 THEN 1 ELSE 0

-----------------------------------------------------------------------------
(***************************************************************************)
(* The units of a direct transfer. A byte's value is the place its content *)
(* came from, so memory is kept only where it was written. The window and  *)
(* the size of a memory (scu_dsp.rs) are as decode maps them; reads of the *)
(* CD block's port are left out.                                           *)
(***************************************************************************)

\* The memories behind an address: the window and the size of what is in it,
\* which is repeated through the window.
Regions ==
    {[name |-> "low RAM",      first |-> 2097152,   window |-> 1048576,  size |-> 1048576],
     [name |-> "sound RAM",    first |-> 94371840,  window |-> 1048576,  size |-> 524288],
     [name |-> "SCSP",         first |-> 95420416,  window |-> 1048576,  size |-> 4096],
     [name |-> "VDP1 VRAM",    first |-> 96468992,  window |-> 524288,   size |-> 524288],
     [name |-> "frame buffer", first |-> 96993280,  window |-> 524288,   size |-> 262144],
     [name |-> "VDP1",         first |-> 97517568,  window |-> 524288,   size |-> 256],
     [name |-> "VDP2 VRAM",    first |-> 98566144,  window |-> 1048576,  size |-> 524288],
     [name |-> "VDP2 CRAM",    first |-> 99614720,  window |-> 524288,   size |-> 4096],
     [name |-> "VDP2",         first |-> 100139008, window |-> 262144,   size |-> 512],
     [name |-> "high RAM",     first |-> 100663296, window |-> 16777216, size |-> 1048576]}

Nothing == <<"nothing", 0>>

Decode(a) == {r \in Regions : a >= r.first /\ a - r.first < r.window}

\* A byte behind an address; the access wraps inside the memory it begins in.
Byte(a, i) ==
    IF Decode(a) = {} THEN Nothing
    ELSE LET r == CHOOSE r \in Decode(a) : TRUE
         IN <<r.name, ((a - r.first) + i) % r.size>>

Content(m, c) == IF c \in DOMAIN m THEN m[c] ELSE c

ReadBytes(m, a, n) == [i \in 1 .. n |-> Content(m, Byte(a, i - 1))]

WriteBytes(m, a, bytes) ==
    IF Decode(a) = {} THEN m
    ELSE LET cells == {Byte(a, i - 1) : i \in DOMAIN bytes}
         IN [c \in DOMAIN m \cup cells |->
                IF c \in cells THEN bytes[CHOOSE i \in DOMAIN bytes : Byte(a, i - 1) = c]
                ELSE m[c]]

\* The B-bus, from the sound RAM to before 05FF0000.
IsBBus(a) == a >= 94371840 /\ a < 100597760

\* The sources that are read once for a fill, as the masks of
\* is_constant_fill_source select them: a megabyte each of low RAM, sound RAM and
\* VDP1, with an alias of the last, and all of high RAM.
IsConstantFillSource(a) ==
    \/ a \div 1048576 \in {2, 90, 92, 124}
    \/ a >= 100663296 /\ a < 134217728

\* clamp_direct_count for the levels 1 and 2, and for level 0.
ClampDirectCount(level, n) ==
    IF level = 0 THEN (IF n = 0 THEN 1048576 ELSE n)
    ELSE IF n % 4096 = 0 THEN 4096 ELSE n % 4096

\* DnAD: bit 8 and the three low bits.
ReadAdd(ad) == IF (ad \div 256) % 2 = 1 THEN 4 ELSE 0

WriteAdd(ad) == IF ad % 8 = 0 THEN 0 ELSE 2 ^ (ad % 8)

-----------------------------------------------------------------------------
UnitsInit ==
    /\ mem = <<>>
    /\ \E t \in Transfers :
           /\ transfer = t
           /\ moving = [read |-> t.r, write |-> t.w, left |-> ClampDirectCount(t.level, t.c),
                     readAdd |-> ReadAdd(t.ad), writeAdd |-> WriteAdd(t.ad)]
           /\ fill = IF ReadAdd(t.ad) = 0 /\ IsConstantFillSource(t.r)
                     THEN ReadBytes(mem, t.r, 4) ELSE <<>>
    /\ early = mem

Less(n) == IF moving.left > n THEN moving.left - n ELSE 0

FillValue == IF fill # <<>> THEN fill ELSE ReadBytes(mem, moving.read, 4)

\* A fill: to the B-bus in two words, each followed by the write add.
FillUnit ==
    /\ moving.left # 0 /\ moving.readAdd = 0
    /\ LET v == FillValue
           second == moving.write + moving.writeAdd
       IN IF IsBBus(moving.write)
          THEN /\ mem' = WriteBytes(WriteBytes(mem, moving.write, SubSeq(v, 1, 2)),
                                    second, SubSeq(v, 3, 4))
               /\ moving' = [moving EXCEPT !.write = second + moving.writeAdd, !.left = Less(4)]
          ELSE /\ mem' = WriteBytes(mem, moving.write, v)
               /\ moving' = [moving EXCEPT !.write = second, !.left = Less(4)]
    /\ UNCHANGED <<fill, transfer, early>>

\* How far a word moves the destination.
WordStride == IF IsBBus(moving.write) THEN moving.writeAdd ELSE moving.writeAdd \div 2

\* A copy: by words from or to the B-bus, by longs otherwise.
CopyUnit ==
    /\ moving.left # 0 /\ moving.readAdd # 0
    /\ LET n == IF IsBBus(moving.write) \/ IsBBus(moving.read) THEN 2 ELSE 4
       IN /\ mem' = WriteBytes(mem, moving.write, ReadBytes(mem, moving.read, n))
          /\ moving' = [moving EXCEPT !.read = @ + n, !.left = Less(n),
                                !.write = @ + (IF n = 2 THEN WordStride ELSE moving.writeAdd)]
    /\ UNCHANGED <<fill, transfer, early>>

\* The program stores a byte of its own.
Poke(a) ==
    /\ moving.left # 0 /\ moving.readAdd = 0
    /\ mem' = WriteBytes(mem, a, <<<<"program", 0>>>>)
    /\ UNCHANGED <<moving, fill, transfer, early>>

UnitsNext == FillUnit \/ CopyUnit \/ (\E a \in Pokes : Poke(a))

-----------------------------------------------------------------------------
Count == ClampDirectCount(transfer.level, transfer.c)

\* The write add that places the units next to each other.
Contiguous ==
    WriteAdd(transfer.ad) = IF IsBBus(transfer.w) THEN 2 ELSE 4

\* A copy with that write add, done and not disturbed, leaves at the destination
\* what was at the source, whichever buses are between, and each byte once
\* (copy_iteration: the stride of a word is halved off the B-bus).
CopyIsTheSource ==
    moving.left = 0 /\ moving.readAdd # 0 /\ Contiguous =>
        /\ \A i \in 0 .. Count - 1 :
               Content(mem, Byte(transfer.w + i, 0)) = Byte(transfer.r + i, 0)
        /\ moving.write = transfer.w + (moving.read - transfer.r)

\* Each value of a fill is one of the source's halves, in their order: what the
\* program stores over the source in the meantime does not show
\* (prime_fill_cache: "reads it exactly once overall").
FillIsOneLong ==
    moving.readAdd = 0 /\ IsConstantFillSource(transfer.r) =>
        \A c \in DOMAIN mem :
            mem[c] \in {Byte(transfer.r, i) : i \in 0 .. 3} \cup {<<"program", 0>>}
            /\ (mem[c] = <<"program", 0>> => \E a \in Pokes : c = Byte(a, 0))

=============================================================================
