--------------------------- MODULE ScuTransfers -----------------------------
(***************************************************************************)
(* What the SCU does to memory: the transfers of its three DMA channels,   *)
(* and the one program of its DSP that is carried out. When they run is    *)
(* the matter of Interrupts and Machine.                                   *)
(***************************************************************************)
EXTENDS Integers, Sequences

CONSTANTS
    Cells,      \* number of cells
    Width,      \* values of a cell; a long is two cells
    BBus,       \* first addresses that make a destination a B-bus one
    MaxCount,   \* what a count of zero means
    ListLimit,  \* 4096: a list longer than this is cut
    WriteAdds,  \* write address adds, in cells
    Counts,     \* counts the program writes to DxC
    Memories,   \* memories at power on
    Addresses,  \* addresses the program writes to DxR and DxW
    ProgSize, DataSize,   \* 256 words each; an address wraps
    Words, Nop,           \* instructions that a program may hold; the word 0
    CopyProgram,          \* COPY_PROGRAM
    Values,               \* what the program writes to the data RAM
    MemSize,              \* longs of memory
    RamContents              \* memories at power on

VARIABLES
    mem,
    ch,        \* the registers of the channel
    stage,     \* "program", "list", "copy" or "end"
    list,      \* transfers: what is to be copied
    copying,   \* the entry of list being copied
    src, dst,  \* cursors of the entry
    done,      \* bytes of the entry copied
    ended,     \* the end interrupt was raised
    found,     \* history: the memory and the registers when the transfer began
    before,    \* history: the memory when the entry began
    prog, data,         \* program and data RAM
    loadPc, dataAddr,
    running, startRequested,
    ram,
    asked, runs         \* history: whether EX was written since the last run;
                        \* runs of the step that asked

-----------------------------------------------------------------------------
(***************************************************************************)
(* A DMA transfer: Scu::run_dma, entry by entry and long by long. Memory   *)
(* is a function from half-word cells to what a cell holds; an address     *)
(* counts cells and wraps, a count is in bytes. The transfer runs with its *)
(* registers, on any memory.                                               *)
(***************************************************************************)

DmaAssumption ==
    /\ Cells \in Nat \ {0}
    /\ Width \in Nat \ {0} /\ Width % 2 = 0   \* a cell has a top bit
    /\ MaxCount < Width * Width /\ Counts \subseteq 0 .. Width * Width - 1
    /\ BBus \subseteq 0 .. Cells - 1
    /\ MaxCount \in Nat \ {0} /\ ListLimit \in Nat
    /\ WriteAdds \subseteq Nat
    /\ Memories \subseteq [0 .. Cells - 1 -> 0 .. Width - 1]
    /\ Addresses \subseteq 0 .. Cells - 1

cursor == <<copying, src, dst, done>>

Address == 0 .. Cells - 1

CountRange == Width * Width

-----------------------------------------------------------------------------
At(m, a) == m[a % Cells]

Long(m, a) == At(m, a) * Width + At(m, a + 1)

CountOf(n) == IF n = 0 THEN MaxCount ELSE n

\* The entry of a list at a: count, destination, source.  The top bit of the
\* source ends the list.
EntryAt(m, a) ==
    [src |-> Long(m, a + 4) % Cells, dst |-> Long(m, a + 2) % Cells,
     bytes |-> CountOf(Long(m, a))]

Last(m, a) == At(m, a + 4) >= Width \div 2

DmaInit ==
    /\ mem \in Memories
    /\ ch = [r |-> 0, w |-> 0, c |-> 0, readAdd |-> 0, writeAdd |-> 0,
             indirect |-> FALSE, keepR |-> FALSE, keepW |-> FALSE, go |-> FALSE]
    /\ stage = "program" /\ list = <<>>
    /\ copying = 0 /\ src = 0 /\ dst = 0 /\ done = 0
    /\ ended = FALSE
    /\ found = [mem |-> mem, ch |-> ch]
    /\ before = mem

\* The program writes the registers, once: how transfers follow each other is in
\* Interrupts.  The update flags of DxMD are here what the transfer keeps.
Program ==
    /\ stage = "program" /\ ~ended
    /\ \E r, w \in Addresses, c \in Counts, ra \in {0, 2}, wa \in WriteAdds,
          i, kr, kw \in BOOLEAN :
           ch' = [r |-> r, w |-> w, c |-> c, readAdd |-> ra, writeAdd |-> wa,
                  indirect |-> i, keepR |-> kr, keepW |-> kw, go |-> TRUE]
    /\ found' = [mem |-> mem, ch |-> ch']
    /\ stage' = IF ch'.indirect THEN "list" ELSE "copy"
    /\ list' = IF ch'.indirect THEN <<>>
               ELSE <<[src |-> ch'.r, dst |-> ch'.w, bytes |-> CountOf(ch'.c)]>>
    /\ src' = IF ch'.indirect THEN ch'.w ELSE ch'.r
    /\ dst' = ch'.w
    /\ copying' = 1 /\ done' = 0
    /\ before' = mem
    /\ UNCHANGED <<mem, ended>>

TooLong(n) == n > ListLimit

\* An indirect transfer reads the whole list before it copies anything.  src is
\* the cursor of the list.
ReadList ==
    /\ stage = "list"
    /\ list' = Append(list, EntryAt(mem, src))
    /\ IF Last(mem, src) \/ TooLong(Len(list'))
       THEN /\ stage' = "copy"
            /\ src' = list'[1].src /\ dst' = list'[1].dst
       ELSE /\ stage' = "list"
            /\ src' = (src + 6) % Cells
            /\ UNCHANGED dst
    /\ UNCHANGED <<mem, ch, copying, done, ended, found, before>>

-----------------------------------------------------------------------------
ToBBus == list[copying].dst \in BBus

\* Mutant: a B-bus destination moves once a long.
AdvanceOnce == (dst + ch.writeAdd) % Cells

\* Where the cursor is after a long: a B-bus destination moves after each of the
\* two words.
AdvanceDst == (dst + (IF ToBBus THEN 2 ELSE 1) * ch.writeAdd) % Cells

SecondWord == (dst + (IF ToBBus THEN ch.writeAdd ELSE 1)) % Cells

Copied(m, hi, lo) == [m EXCEPT ![dst] = hi, ![SecondWord] = lo]

More == done < list[copying].bytes

CopyLong ==
    /\ stage = "copy" /\ More
    /\ mem' = Copied(mem, At(mem, src), At(mem, src + 1))
    /\ dst' = AdvanceDst
    /\ src' = (src + ch.readAdd) % Cells
    /\ done' = (done + 4) % CountRange
    /\ UNCHANGED <<ch, stage, list, copying, ended, found, before>>

\* The registers a direct transfer leaves.
Updated ==
    [ch EXCEPT !.r = IF ch.indirect \/ ch.keepR THEN @ ELSE src,
               !.w = IF ch.indirect \/ ch.keepW THEN @ ELSE dst]

EndEntry ==
    /\ stage = "copy" /\ ~More
    /\ ch' = Updated
    /\ before' = mem
    /\ done' = 0
    /\ IF copying < Len(list)
       THEN /\ copying' = copying + 1
            /\ src' = list[copying + 1].src /\ dst' = list[copying + 1].dst
            /\ UNCHANGED stage
       ELSE /\ stage' = "end"
            /\ UNCHANGED <<copying, src, dst>>
    /\ UNCHANGED <<mem, list, ended, found>>

\* The channel is done: not armed, and the interrupt is raised.
End ==
    /\ stage = "end"
    /\ ch' = [ch EXCEPT !.go = FALSE]
    /\ ended' = TRUE
    /\ stage' = "program"
    /\ UNCHANGED <<mem, list, cursor, found, before>>

DmaStep == ReadList \/ CopyLong \/ EndEntry \/ End

DmaNext == Program \/ DmaStep

-----------------------------------------------------------------------------
\* The cell that the k-th long's word h (0 or 1) of the entry goes to and comes from.
Target(k, h) ==
    (list[copying].dst
        + (IF ToBBus THEN (2 * k + h) * ch.writeAdd ELSE k * ch.writeAdd + h)) % Cells

Source(k, h) == (list[copying].src + k * ch.readAdd + h) % Cells

Longs == done \div 4

Disjoint ==
    \A k, l \in 0 .. (list[copying].bytes + 3) \div 4 - 1, h, i \in {0, 1} :
        Source(k, h) # Target(l, i)

\* The last word of the first n longs that goes to cell a.
Hits(a) == {w \in 0 .. 2 * Longs - 1 : Target(w \div 2, w % 2) = a}

LastOf(S) == CHOOSE w \in S : \A v \in S : v <= w

\* done counts in 32 bits: nearly the greatest count never ends.
Countable(e) == e.bytes <= CountRange - 4

\* An entry whose source is not overwritten by it is copied word for word: every
\* cell holds the last word that was sent to it, every other cell is untouched,
\* for any strides of source and destination.
CopiesTheBlock ==
    stage = "copy" /\ Countable(list[copying]) /\ Disjoint =>
        \A a \in Address :
            mem[a] = IF Hits(a) = {} THEN before[a]
                     ELSE LET w == LastOf(Hits(a)) IN before[Source(w \div 2, w % 2)]

\* An indirect transfer is the one its list described when it began, even if the
\* copy runs over the list; it ends at the entry that is marked, or is cut.
ListIsAsFound ==
    stage = "copy" /\ found.ch.indirect =>
        /\ \A k \in 1 .. Len(list) :
            /\ list[k] = EntryAt(found.mem, found.ch.w + 6 * (k - 1))
            /\ k < Len(list) => ~Last(found.mem, found.ch.w + 6 * (k - 1))
        /\ Last(found.mem, found.ch.w + 6 * (Len(list) - 1)) \/ Len(list) = ListLimit + 1

\* A direct transfer that updates its registers leaves them one step behind the
\* last word, so that the next one continues; whatever is kept is as written.
ContinuesWhereItEnded ==
    stage = "end" =>
        LET c == found.ch
            longs == (CountOf(c.c) + 3) \div 4
            words == longs * (IF c.w \in BBus THEN 2 ELSE 1)
        IN  /\ ch.r = IF c.indirect \/ c.keepR THEN c.r ELSE (c.r + longs * c.readAdd) % Cells
            /\ ch.w = IF c.indirect \/ c.keepW THEN c.w ELSE (c.w + words * c.writeAdd) % Cells

-----------------------------------------------------------------------------
(***************************************************************************)
(* The DSP: the ports through which a program and its data are loaded, and *)
(* the run that the machine starts after a step in which EX was written.   *)
(* There is no interpreter: the one program that the BIOS loads is         *)
(* recognised and its effect, a block copy, carried out.                   *)
(***************************************************************************)

DspAssumption ==
    /\ ProgSize \in Nat \ {0} /\ DataSize \in Nat /\ DataSize >= 3
    /\ Nop \in Words
    /\ CopyProgram \in Seq(Words) /\ Len(CopyProgram) <= ProgSize
    /\ Values \subseteq Nat
    /\ MemSize \in Nat \ {0}

portVars == <<prog, data, loadPc, dataAddr>>

DspInit ==
    /\ prog = [a \in 0 .. ProgSize - 1 |-> Nop]
    /\ data = [a \in 0 .. DataSize - 1 |-> 0]
    /\ loadPc = 0 /\ dataAddr = 0
    /\ running = FALSE /\ startRequested = FALSE
    /\ ram \in RamContents
    /\ asked = FALSE /\ runs = 0

-----------------------------------------------------------------------------
\* PPAF: LE takes the load address, EX starts.
WritePpaf(le, pc, ex) ==
    /\ loadPc' = IF le THEN pc ELSE loadPc
    /\ running' = (running \/ ex)
    /\ startRequested' = (startRequested \/ ex)
    /\ asked' = (asked \/ ex)
    /\ UNCHANGED <<prog, data, dataAddr, ram, runs>>

WritePpd(w) ==
    /\ prog' = [prog EXCEPT ![loadPc] = w]
    /\ loadPc' = (loadPc + 1) % ProgSize
    /\ UNCHANGED <<data, dataAddr, running, startRequested, ram, asked, runs>>

WritePda(a) ==
    /\ dataAddr' = a
    /\ UNCHANGED <<prog, data, loadPc, running, startRequested, ram, asked, runs>>

WritePdd(v) ==
    /\ data' = [data EXCEPT ![dataAddr] = v]
    /\ dataAddr' = (dataAddr + 1) % DataSize
    /\ UNCHANGED <<prog, loadPc, running, startRequested, ram, asked, runs>>

ReadPdd ==
    /\ dataAddr' = (dataAddr + 1) % DataSize
    /\ UNCHANGED <<prog, data, loadPc, running, startRequested, ram, asked, runs>>

\* A store of less than a long reads the register first, and reading PDD moves
\* the address as well: the word lands one further.
WritePartOfPdd(v) ==
    LET a == (dataAddr + 1) % DataSize
    IN  /\ data' = [data EXCEPT ![a] = v]
        /\ dataAddr' = (a + 1) % DataSize
        /\ UNCHANGED <<prog, loadPc, running, startRequested, ram, asked, runs>>

-----------------------------------------------------------------------------
Recognised == \A k \in 1 .. Len(CopyProgram) : prog[k - 1] = CopyProgram[k]

\* The first n words copied, one after the other.
Moved(m, n) ==
    LET moved[k \in 0 .. n] ==
            IF k = 0 THEN m
            ELSE [moved[k - 1] EXCEPT ![(data[1] + k - 1) % MemSize] =
                      moved[k - 1][(data[0] + k - 1) % MemSize]]
    IN  moved[n]

\* data[0] words from, data[1] to, data[2] many.
Copy(m) == Moved(m, data[2])

Run ==
    /\ startRequested
    /\ running' = FALSE /\ startRequested' = FALSE
    /\ ram' = IF Recognised THEN Copy(ram) ELSE ram
    /\ runs' = runs + 1
    /\ UNCHANGED <<portVars, asked>>

\* The end of the machine's step, when there is nothing to run any more.
EndOfStep ==
    /\ ~startRequested /\ asked
    /\ asked' = FALSE /\ runs' = 0
    /\ UNCHANGED <<portVars, running, startRequested, ram>>

\* The guest runs blocks, or the machine ends its step.
DspNext ==
    \/ /\ runs = 0
       /\ \/ \E le, ex \in BOOLEAN, pc \in 0 .. ProgSize - 1 : WritePpaf(le, pc, ex)
          \/ \E w \in Words : WritePpd(w)
          \/ \E a \in 0 .. DataSize - 1 : WritePda(a)
          \/ \E v \in Values : WritePdd(v) \/ WritePartOfPdd(v)
          \/ ReadPdd
    \/ Run
    \/ EndOfStep

-----------------------------------------------------------------------------
\* A step in which EX was written, once or more, runs the program once, and PPAF
\* shows it executing from the store until that run.
RunsOnce ==
    /\ runs <= 1
    /\ asked /\ ~startRequested => runs = 1
    /\ running <=> asked /\ runs = 0

\* The ports themselves never change memory.  A run does so only with the whole
\* copy program loaded, and if source and destination are apart it copies the
\* block and nothing else.
From == {(data[0] + k) % MemSize : k \in 0 .. data[2] - 1}

To == {(data[1] + k) % MemSize : k \in 0 .. data[2] - 1}

RunCopiesTheBlock ==
    /\ ram' # ram => running /\ SubSeq([k \in 1 .. ProgSize |-> prog[k - 1]], 1,
                                       Len(CopyProgram)) = CopyProgram
    /\ running /\ ~running' /\ ram' # ram /\ From \cap To = {} =>
           \A a \in 0 .. MemSize - 1 :
               ram'[a] = IF a \in To
                         THEN ram[(a - data[1] + data[0] + MemSize) % MemSize]
                         ELSE ram[a]

=============================================================================
