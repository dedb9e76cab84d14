-------------------------- MODULE DspInterpreter ----------------------------
(***************************************************************************)
(* The first emulator's interpreter for the SCU's DSP (archived            *)
(* scu_dsp.rs), its ALU and its instructions.                              *)
(***************************************************************************)
EXTENDS Integers, FiniteSets, Sequences

CONSTANTS
    Low, Acc, Full,   \* 32, 48 and 64 bits
    Operands,         \* the words that reach RX and RY
    ProgramSize,        \* 256 words
    BankSize,           \* 64 words in each of the four banks
    HighRam,            \* the longs of the high work RAM, from 0
    ABus, BBus,         \* the longs of the A-bus and the B-bus
    Unmapped,           \* the longs of them that decode maps to nothing
    Programs,           \* the programs loaded
    Starts,             \* the data RAM and the registers a program starts with
    Memories,           \* what memory holds then
    Uploads, Writes,    \* instructions and longs the SH-2s write to the ports
    Controls            \* what they write to the control port

VARIABLES
    ac, p,    \* the accumulator and the product register
    flags,    \* the Z, S and C bits of the control port
    dsp,     \* ScuDsp, with the memory its transfers reach
    first    \* the state at the start

-----------------------------------------------------------------------------
(***************************************************************************)
(* The ALU: accumulators of 48 bits kept in integers of 64, most           *)
(* operations on the low 32. The widths are constants, so that TLC can     *)
(* take small ones.                                                        *)
(***************************************************************************)

WidthAssumption == Low \in Nat /\ Low % 4 = 0 /\ Low < Acc /\ Acc < Full

OperandAssumption == Operands \subseteq -(2 ^ (Low - 1)) .. 2 ^ (Low - 1) - 1

aluVars == <<ac, p, flags>>

Unsigned(n, w) == n % (2 ^ w)

Signed(n, w) == ((n + 2 ^ (w - 1)) % (2 ^ w)) - 2 ^ (w - 1)

SetLow(acc, low) == (acc - Unsigned(acc, Low)) + Unsigned(low, Low)

FlagsOf(z, s, c) ==
    (IF z THEN {"z"} ELSE {}) \cup (IF s THEN {"s"} ELSE {}) \cup (IF c THEN {"c"} ELSE {})

\* A word as the set of its bits, for the logical operations.
Bits(n) == {i \in 0 .. Low - 1 : (n \div 2 ^ i) % 2 = 1}
WordOf(bits) ==
    LET word[i \in 0 .. Low] ==
            IF i = 0 THEN 0 ELSE word[i - 1] + (IF i - 1 \in bits THEN 2 ^ (i - 1) ELSE 0)
    IN word[Low]

AluOps == {"nop", "and", "or", "xor", "add", "sub", "ad2", "sr", "rr", "sl", "rl", "rl8"}

Borrow(a, b) == a < b

\* execute_alu; RL8 turns a quarter of the word.
AluResult(op, a48, p48, old) ==
    LET a == Unsigned(a48, Low)
        b == Unsigned(p48, Low)
        low(r, c) == [alu |-> SetLow(a48, r),
                      flags |-> FlagsOf(Unsigned(r, Low) = 0, Signed(r, Low) < 0, c)]
        wide == Signed(a48 + p48, Full)
    IN  CASE op = "nop" -> [alu |-> a48, flags |-> old]
          [] op = "and" -> low(WordOf(Bits(a) \cap Bits(b)), FALSE)
          [] op = "or" -> low(WordOf(Bits(a) \cup Bits(b)), FALSE)
          [] op = "xor" -> low(WordOf((Bits(a) \ Bits(b)) \cup (Bits(b) \ Bits(a))), FALSE)
          [] op = "add" -> low(a + b, a + b >= 2 ^ Low)
          [] op = "sub" -> low(a - b, Borrow(a, b))
          [] op = "ad2" ->
               [alu |-> wide,
                flags |-> FlagsOf(wide = 0, Signed(wide, Acc) < 0,
                                  Unsigned(a48, Acc) + Unsigned(p48, Acc) >= 2 ^ Acc)]
          [] op = "sr" -> low(((a \div 2 ^ (Low - 1)) * 2 ^ (Low - 1)) + (a \div 2), a % 2 = 1)
          [] op = "rr" -> low(((a % 2) * 2 ^ (Low - 1)) + (a \div 2), a % 2 = 1)
          [] op = "sl" -> low(2 * a, a >= 2 ^ (Low - 1))
          [] op = "rl" -> low((2 * a) + (a \div 2 ^ (Low - 1)), a >= 2 ^ (Low - 1))
          [] op = "rl8" ->
               LET n == Low \div 4
               IN  low((a * 2 ^ n) + (a \div 2 ^ (Low - n)), (a \div 2 ^ (Low - n)) % 2 = 1)

-----------------------------------------------------------------------------
AluInit == ac = 0 /\ p = 0 /\ flags = {}

\* MOV MUL,P and MOV [s],P.
LoadP(n) == p' = n /\ UNCHANGED <<ac, flags>>

\* MOV ALU,A with an operation in the same instruction; MOV [s],A and CLR A.
Operate(op) ==
    LET r == AluResult(op, ac, p, flags)
    IN  ac' = r.alu /\ flags' = r.flags /\ p' = p

LoadA(n) == ac' = n /\ UNCHANGED <<p, flags>>

AluNext ==
    \/ \E x, y \in Operands : LoadP(x * y)
    \/ \E x \in Operands \cup {0} : LoadP(x) \/ LoadA(x)
    \/ \E op \in AluOps : Operate(op)

-----------------------------------------------------------------------------
\* The operations against one another: SUB takes back what ADD gave, with the
\* carry as the borrow; a left turn takes back a right one; RL8 is as many
\* single turns as it says, carry included; SR and SL halve and double the
\* signed word (scu_dsp.rs:402-488).
OperationsAgree ==
    LET r(op, a, b) == AluResult(op, a, b, flags)
        added == r("add", ac, p)
        taken == r("sub", added.alu, p)
        turn[n \in 0 .. Low \div 4] ==
            IF n = 0 THEN [alu |-> ac, flags |-> flags] ELSE r("rl", turn[n - 1].alu, p)
    IN  /\ taken.alu = ac /\ ("c" \in taken.flags <=> "c" \in added.flags)
        /\ r("rl", r("rr", ac, p).alu, p).alu = ac
        /\ r("rl8", ac, p) = turn[Low \div 4]
        /\ Signed(r("sr", ac, p).alu, Low) = Signed(ac, Low) \div 2
        /\ Signed(r("sl", ac, p).alu, Low) = Signed(2 * Signed(ac, Low), Low)
        /\ r("xor", r("xor", ac, p).alu, p).alu = ac
        /\ Unsigned(r("and", ac, p).alu, Low) + Unsigned(r("or", ac, p).alu, Low)
               = Unsigned(ac, Low) + Unsigned(p, Low)

-----------------------------------------------------------------------------
(***************************************************************************)
(* The program: one action per instruction, with the ports the SH-2s use   *)
(* between them: sources, destinations and the deferred steps of the data  *)
(* counters, delayed jumps, loops, conditions, the transfers that run      *)
(* beside the program and the end. An instruction is a record; memory is   *)
(* counted in longs.                                                       *)
(***************************************************************************)

SizeAssumption == {ProgramSize, BankSize, HighRam} \subseteq Nat \ {0}

BusAssumption == (0 .. HighRam - 1) \cap (ABus \cup BBus) = {} /\ ABus \cap BBus = {}

dspVars == <<dsp, first>>

Word(n) == Signed(n, Low)

None == -1

Banks == 0 .. 3

-----------------------------------------------------------------------------
\* Memory, as decode maps it.

Mapped(s) == DOMAIN s.mem \ Unmapped

ReadLong(s, a) == IF a \in Mapped(s) THEN s.mem[a] ELSE 0

Cell(s, bank) == s.md[bank][s.ct[bank]]

Advance(s, bank, n) == [s EXCEPT !.ct[bank] = (@ + n) % BankSize]

\* The last of n steps that writes this place, step i writing At(i).
LastAt(place, At(_), n) ==
    LET steps == {i \in 0 .. n - 1 : At(i) = place} \cup {None}
    IN CHOOSE i \in steps : \A j \in steps : j <= i

\* dsp_dma01 and 03: longs from the D0 bus to a bank, or to the program from
\* its start.
Fetch(s) ==
    LET n == s.dma.size
        sel == s.dma.sel
        read(i) == ReadLong(s, s.ra0m + (i * s.dma.add))
        slot(i) == (s.ct[sel] + i) % BankSize
        longs(b) == [a \in DOMAIN b |-> LET i == LastAt(a, slot, n)
                                       IN  IF i = None THEN b[a] ELSE read(i)]
        moved == [s EXCEPT !.ra0m = @ + (n * s.dma.add)]
    IN  IF sel = 4
        THEN [moved EXCEPT !.prog = [a \in DOMAIN @ |-> IF a < n THEN read(a) ELSE @[a]]]
        ELSE [Advance(moved, sel, n) EXCEPT !.md[sel] = longs(@)]

\* dsp_dma_write_d0bus, with the stride of each bus.
Deliver(s) ==
    LET n == s.dma.size
        sel == s.dma.sel
        add == s.dma.add
        bus == s.wa0m \in ABus \cup BBus
        stride == CASE s.wa0m \in ABus -> IF add > 1 THEN 1 ELSE add
                    [] s.wa0m \in BBus -> IF add = 0 THEN 1 ELSE add
                    [] ~bus -> IF add <= 1 THEN 1 ELSE add \div 2
        place(i) == IF bus THEN s.wa0m + (i * stride) ELSE (s.wa0m + (i * stride)) % HighRam
        long(a) == LET i == LastAt(a, place, n)
                   IN  IF i = None THEN s.mem[a] ELSE s.md[sel][(s.ct[sel] + i) % BankSize]
    IN  [Advance(s, sel, n) EXCEPT
            !.mem = [a \in DOMAIN @ |-> IF a \in Mapped(s) THEN long(a) ELSE @[a]],
            !.wa0m = @ + (n * stride)]

\* The transfer is done: RA0 and WA0 go on, or stay where a held one began.
RunDma(s) ==
    LET moved == IF s.dma.dir = "in" THEN Fetch(s) ELSE Deliver(s)
        keepsRa0 == s.dma.hold \/ (s.dma.counted /\ s.ra0m \in ABus)
    IN  [moved EXCEPT
            !.ra0 = IF s.dma.dir = "out" THEN @ ELSE IF keepsRa0 THEN s.ra0 ELSE moved.ra0m,
            !.wa0 = IF s.dma.dir = "in" THEN @ ELSE IF s.dma.hold THEN s.wa0m ELSE moved.wa0m,
            !.t0 = FALSE, !.wait = 0]

StepDma(s) ==
    CASE ~s.t0 -> s [] s.t0 /\ s.wait > 1 -> [s EXCEPT !.wait = @ - 1] [] OTHER -> RunDma(s)

\* start_dma.  The size is read, and a counter stepped, when it starts.
StartDma(s, i) ==
    LET size == IF i.count[1] = "imm" THEN i.count[2] ELSE Cell(s, i.count[2])
        g == IF i.count[1] = "mc" THEN Advance(s, i.count[2], 1) ELSE s
    IN  [g EXCEPT !.t0 = TRUE, !.wait = 2, !.ra0m = s.ra0, !.wa0m = s.wa0,
            !.dma = [dir |-> i.dir, sel |-> i.sel, add |-> i.add, hold |-> i.hold,
                     counted |-> i.count[1] # "imm", size |-> size]]

-----------------------------------------------------------------------------
\* One instruction.

\* read_gen_src: a long of a bank, or half of the ALU.  The counter steps when
\* the instruction is over.
ReadSource(s, src) ==
    CASE src[1] = "m" -> [dsp |-> s, val |-> Cell(s, src[2])]
      [] src[1] = "mc" -> [dsp |-> [s EXCEPT !.inc = @ \cup {src[2]}], val |-> Cell(s, src[2])]
      [] src[1] = "all" -> [dsp |-> s, val |-> Word(s.alu)]
      [] src[1] = "alh" -> [dsp |-> s, val |-> Word(s.alu \div 2 ^ (Low \div 2))]

\* write_d1_bus_dest and write_load_im_dest, which alone can call.
WriteDest(s, dest, v) ==
    CASE dest[1] = "m" -> [s EXCEPT !.md[dest[2]][s.ct[dest[2]]] = v, !.inc = @ \cup {dest[2]}]
      [] dest[1] = "ct" -> [s EXCEPT !.ct[dest[2]] = v % BankSize, !.inc = @ \ {dest[2]}]
      [] dest[1] = "rx" -> [s EXCEPT !.rx = v]
      [] dest[1] = "p" -> [s EXCEPT !.p = v]
      [] dest[1] = "ra0" -> [s EXCEPT !.ra0 = v]
      [] dest[1] = "wa0" -> [s EXCEPT !.wa0 = v]
      [] dest[1] = "lop" -> [s EXCEPT !.lop = v]
      [] dest[1] = "top" -> [s EXCEPT !.top = v]
      [] dest[1] = "call" ->
           [s EXCEPT !.top = (s.pc + 1) % ProgramSize, !.jmp = v, !.delayed = FALSE]

ApplyInc(s) ==
    [s EXCEPT !.inc = {},
              !.ct = [b \in Banks |-> IF b \in s.inc THEN (@[b] + 1) % BankSize ELSE @[b]]]

\* Moves on the X, Y, A and D1 buses, in this order; a short immediate lets
\* the counters step first.
Operation(s, i) ==
    LET move(t, src, field) ==
            IF src = <<>> THEN t
            ELSE LET r == ReadSource(t, src) IN [r.dsp EXCEPT ![field] = r.val]
        t1 == IF i.p = <<"mul">> THEN [s EXCEPT !.p = s.rx * s.ry] ELSE move(s, i.p, "p")
        t2 == move(move(t1, i.x, "rx"), i.y, "ry")
        t3 == CASE i.a = <<"clr">> -> [t2 EXCEPT !.ac = 0]
                [] i.a = <<"alu">> -> [t2 EXCEPT !.ac = t2.alu]
                [] OTHER -> move(t2, i.a, "ac")
    IN  CASE i.dest = <<>> -> t3
          [] i.dest # <<>> /\ i.from[1] = "imm" -> WriteDest(ApplyInc(t3), i.dest, i.from[2])
          [] OTHER -> LET r == ReadSource(t3, i.from) IN WriteDest(r.dsp, i.dest, r.val)

Holds(s, cond) ==
    CASE cond = "always" -> TRUE
      [] cond \in {"z", "s", "c"} -> cond \in s.flags
      [] cond = "zs" -> s.flags \cap {"z", "s"} # {}
      [] cond = "t0" -> s.t0
      [] cond = "nzs" -> s.flags \cap {"z", "s"} = {}
      [] cond = "nt0" -> ~s.t0
      [] cond \in {"nz", "ns", "nc"} ->
           [nz |-> "z", ns |-> "s", nc |-> "c"][cond] \notin s.flags

\* force_complete_dma: an instruction that reads a bank, writes a register or starts
\* a transfer finds the one before it done.
Touches(s, i) ==
    \/ i.class = "dma"
    \/ i.class = "mvi" /\ Holds(s, i.cond)
    \/ /\ i.class = "op"
       /\ \/ i.dest # <<>>
          \/ \E src \in {i.p, i.x, i.y, i.a} : src # <<>> /\ src[1] \in {"m", "mc"}

\* execute_load_immediate decides on T0 before it completes the transfer for the
\* write.
Decided(s, i) ==
    IF i.class = "mvi" /\ i.cond = "t0" /\ s.t0 THEN [i EXCEPT !.cond = "always"] ELSE i

Force(s, i) == IF s.wait > 0 /\ Touches(s, i) THEN RunDma(s) ELSE s

\* Mutant: the last turn of a loop is left out.
LoopShort(s, target) ==
    IF s.lop <= 1 THEN s ELSE [s EXCEPT !.lop = @ - 1, !.jmp = target, !.delayed = FALSE]

JumpTo(s, target) == [s EXCEPT !.jmp = target, !.delayed = FALSE]

Loop(s, target) == IF s.lop = 0 THEN s ELSE JumpTo([s EXCEPT !.lop = @ - 1], target)

Stop(s, interrupt) ==
    [s EXCEPT !.ex = FALSE, !.e = @ \/ interrupt, !.port = (s.pc + 1) % ProgramSize]

Execute(s, i) ==
    CASE i.class = "op" ->
           LET r == AluResult(i.alu, s.ac, s.p, s.flags)
           IN  Operation([s EXCEPT !.alu = r.alu, !.flags = r.flags], i)
      [] i.class = "mvi" ->
           IF Holds(s, i.cond) THEN WriteDest([s EXCEPT !.alu = s.ac], i.dest, i.val)
           ELSE [s EXCEPT !.alu = s.ac]
      [] i.class = "dma" -> StartDma([s EXCEPT !.alu = s.ac], i)
      [] i.class = "jmp" ->
           IF s.jmp = None /\ Holds(s, i.cond) THEN JumpTo(s, i.target) ELSE s
      [] i.class = "lps" -> Loop(s, s.pc)
      [] i.class = "btm" -> Loop(s, s.top)
      [] i.class \in {"end", "endi"} -> Stop(s, i.class = "endi")

\* The counters step, the program goes on, and a jump lands after the
\* instruction behind it.
Finish(s) ==
    LET t == [ApplyInc(s) EXCEPT !.pc = (@ + 1) % ProgramSize]
    IN  CASE t.jmp = None -> t
          [] t.jmp # None /\ t.delayed -> [t EXCEPT !.pc = t.jmp, !.jmp = None]
          [] OTHER -> [t EXCEPT !.delayed = TRUE]

-----------------------------------------------------------------------------
Fresh(program, start, memory) ==
    [pc |-> 0, prog |-> program, md |-> start.md, ct |-> [b \in Banks |-> 0],
     rx |-> 0, ry |-> 0, ra0 |-> 0, wa0 |-> 0, ra0m |-> 0, wa0m |-> 0,
     lop |-> start.lop, top |-> 0, inc |-> {}, ac |-> 0, p |-> 0, alu |-> 0, flags |-> {},
     ex |-> TRUE, e |-> FALSE, t0 |-> FALSE, port |-> 0, addr |-> <<0, 0>>,
     jmp |-> None, delayed |-> FALSE, wait |-> 0,
     dma |-> [dir |-> "in", sel |-> 0, add |-> 0, hold |-> FALSE, counted |-> FALSE, size |-> 0],
     mem |-> memory]

\* A program and its data were loaded through the ports, and EX is set.
DspInit ==
    /\ \E program \in Programs, start \in Starts, memory \in Memories :
          dsp = Fresh(program, start, memory)
    /\ first = dsp

\* step.
Step ==
    /\ dsp.ex
    /\ \E s \in {StepDma(dsp)} :
          LET i == Decided(s, s.prog[s.pc])
          IN  \E f \in {Force(s, i)} : \E t \in {Execute([f EXCEPT !.inc = {}], i)} :
                  dsp' = Finish(t)
    /\ UNCHANGED first

\* write_control_port.  LE and uploads are for a DSP that stands, though nothing
\* keeps them from a running one.
WriteControl(c) ==
    /\ c.le => ~dsp.ex
    /\ dsp' = [dsp EXCEPT !.ex = c.ex, !.port = c.pc,
                          !.pc = IF c.le THEN c.pc ELSE @,
                          !.jmp = IF c.ex THEN None ELSE @]
    /\ UNCHANGED first

\* write_program_ram_port.
Upload(i) ==
    /\ ~dsp.ex
    /\ dsp' = [dsp EXCEPT !.prog[dsp.pc] = i, !.pc = (@ + 1) % ProgramSize,
                          !.port = (dsp.pc + 1) % ProgramSize]
    /\ UNCHANGED first

NextAddr == [dsp EXCEPT !.addr[2] = (@ + 1) % BankSize]

WriteAddr(bank, a) == dsp' = [dsp EXCEPT !.addr = <<bank, a>>] /\ UNCHANGED first

WriteData(v) ==
    /\ dsp' = IF dsp.ex THEN dsp ELSE [NextAddr EXCEPT !.md[dsp.addr[1]][dsp.addr[2]] = v]
    /\ UNCHANGED first

ReadData == dsp' = (IF dsp.ex THEN dsp ELSE NextAddr) /\ UNCHANGED first

Ports ==
    \/ \E c \in Controls : WriteControl(c)
    \/ \E i \in Uploads : Upload(i)
    \/ \E v \in Writes : WriteData(v) \/ ReadData \/ WriteAddr(v % 4, 0)

DspNext == Step \/ Ports

-----------------------------------------------------------------------------
\* The BIOS's program copies the block it is given, in pieces of a bank through
\* two transfers each, and nothing else (scu_dsp.rs:335-391, 672-919; the
\* emulator that came after does just the copy: src/devices/scu_dsp.rs:94-103).
CopiesTheBlock ==
    ~dsp.ex =>
        LET src == first.md[0][0]  dst == first.md[0][1]  n == first.md[0][2]
        IN  \A a \in DOMAIN dsp.mem :
              dsp.mem[a] = IF a \in dst .. dst + n - 1
                           THEN first.mem[(src + a) - dst] ELSE first.mem[a]

\* A loop runs its body once more than its counter says, and what it reads of
\* a transfer that was started before is there, however soon it comes
\* (scu_dsp.rs:212-222, 597-613).
LoopCopies ==
    ~dsp.ex =>
        \A k \in 0 .. BankSize - 1 :
            dsp.md[1][k] = IF k <= first.lop THEN first.mem[k] ELSE 0

\* The control port tells where an end stopped the program: at the instruction
\* behind it, where the next start goes on (scu_dsp.rs:628-633).
EndTellsWhere ==
    dsp.ex /\ dsp.jmp = None /\ Step /\ ~dsp'.ex => dsp'.port = dsp'.pc

\* What the program sees of its counter is a pipeline of two addresses: pc and the
\* one after it.
AfterNext == IF dsp.jmp # None THEN dsp.jmp ELSE (dsp.pc + 1) % ProgramSize

InSlot == dsp.jmp # None

\* Jumps, loops, calls, stops and starts go through a pending address and a flag
\* that is not reset when a jump lands; a jump replaces the second address of the
\* pipeline, one jump is under way at a time, and a stop keeps it
\* (scu_dsp.rs:140-151, 376-388, 597-613, 640-668).
CounterIsAPipeline ==
    /\ dsp.ex /\ Step =>
          /\ dsp'.pc = AfterNext
          /\ \/ ~InSlot /\ InSlot'
             \/ ~InSlot' /\ AfterNext' = (AfterNext + 1) % ProgramSize
    /\ dsp.ex /\ ~Step => dsp'.pc = dsp.pc
    /\ ~Step /\ dsp'.ex => ~InSlot'
    /\ ~Step /\ ~dsp'.ex => dsp'.jmp = dsp.jmp

=============================================================================
