---------------------------- MODULE MCProcessor -----------------------------
(***************************************************************************)
(* Model checking of the SH-2 beyond its block cache: what the compiled    *)
(* instructions compute, the decoders, the shape of a block, the on-chip   *)
(* peripherals, each a component of its own that a behaviour is about      *)
(* (part); with the archived interpreter as a second implementation of the *)
(* same processor.                                                         *)
(***************************************************************************)
EXTENDS Sh2Execute, FiniteSets

VARIABLES
    part,  \* the component this behaviour is about
    name, given, after, ran,
    insn, before, live, archived, compared,
    word,
    code, cpu, block,
    now, base, time, select, ticking, phase, rescaled,
    dvsr, dvdnt, ovf, dvdnth, dvdntl, mirrorh, mirrorl, division

-----------------------------------------------------------------------------
(***************************************************************************)
(* The idioms that compiled programs and the BIOS build from the JIT's     *)
(* instructions, on all operands of a small width.                         *)
(***************************************************************************)

\* Registers of eight bits, bytes of two.
Eight == INSTANCE Sh2Execute WITH ByteBits <- 2

Op(op, m, n) == [op |-> op, m |-> m, n |-> n, imm |-> 0]
By(op, n, imm) == [op |-> op, m |-> n, n |-> n, imm |-> imm]
Repeat(k, insns) == [j \in 1 .. k * Len(insns) |-> insns[((j - 1) % Len(insns)) + 1]]

Program == [
    \* R2 := R1:R2 / R0, without sign.
    divu |-> <<Op("DIV0U", 0, 0)>>
             \o Repeat(Width, <<Op("ROTCL", 2, 2), Op("DIV1", 0, 1)>>)
             \o <<Op("ROTCL", 2, 2)>>,
    \* R2 := R2 / R0, with sign.
    divs |-> <<Op("MOV", 2, 3), Op("ROTCL", 3, 3), Op("SUBC", 1, 1), Op("XOR", 3, 3),
               Op("SUBC", 3, 2), Op("DIV0S", 0, 1)>>
             \o Repeat(Width, <<Op("ROTCL", 2, 2), Op("DIV1", 0, 1)>>)
             \o <<Op("ROTCL", 2, 2), Op("ADDC", 3, 2)>>,
    \* R3:R1 := R3:R1 + R2:R0, - R2:R0, and R3:R1 := -(R2:R0).
    add |-> <<Op("CLRT", 0, 0), Op("ADDC", 0, 1), Op("ADDC", 2, 3)>>,
    sub |-> <<Op("CLRT", 0, 0), Op("SUBC", 0, 1), Op("SUBC", 2, 3)>>,
    neg |-> <<Op("CLRT", 0, 0), Op("NEGC", 0, 1), Op("NEGC", 2, 3)>>,
    \* R3 := whether R1 is less than R0, by the sign and the overflow of a difference.
    less |-> <<Op("MOV", 1, 2), Op("SUBV", 0, 2), Op("MOVT", 0, 3), Op("SHLL", 2, 2),
               Op("MOVT", 0, 2), Op("XOR", 2, 3), Op("CMP/GE", 0, 1)>>,
    \* R2 := R0 * R1 by halves; MACL has it whole.
    halves |-> <<Op("MULU.W", 0, 1), Op("STS MACL", 0, 2),
                 Op("SWAP.W", 1, 3), Op("MULU.W", 0, 3), Op("STS MACL", 0, 3),
                 By("SHLLn", 3, Half), Op("ADD", 3, 2),
                 Op("SWAP.W", 0, 3), Op("MULU.W", 3, 1), Op("STS MACL", 0, 3),
                 By("SHLLn", 3, Half), Op("ADD", 3, 2), Op("MUL.L", 0, 1)>>,
    \* R2:R3 := R0 * R1 with sign, by MULS of the halves' extensions and DMULS.
    signed |-> <<Op("DMULS", 0, 1), Op("STS MACH", 0, 2), Op("STS MACL", 0, 3)>>,
    \* Four products, their operands at R0 and at R1, which is a long ahead.
    macl |-> Repeat(4, <<Op("MAC.L", 1, 0)>>),
    macw |-> Repeat(4, <<Op("MAC.W", 1, 0)>>),
    \* Both operands by R0.
    square |-> Repeat(2, <<Op("MAC.L", 0, 0)>>),
    \* R1:R0 twice as great, R3:R2 half.
    shift |-> <<Op("SHLL", 0, 0), Op("ROTCL", 1, 1), Op("SHAR", 3, 3), Op("ROTCR", 2, 2)>>,
    \* All the way round.
    round |-> Repeat(Width + 1, <<Op("ROTCL", 0, 0)>>) \o Repeat(Width + 1, <<Op("ROTCR", 1, 1)>>)
              \o Repeat(Width, <<Op("ROTL", 2, 2)>>) \o Repeat(Width, <<Op("ROTR", 3, 3)>>),
    \* R3 := the bits of R0 where R2 has ones, and those of R1 elsewhere.
    merge |-> <<Op("MOV", 0, 3), Op("AND", 2, 3), Op("NOT", 2, 2), Op("AND", 2, 1),
                Op("OR", 1, 3)>>,
    \* T := R0 and R1 have a byte in common.
    string |-> <<Op("CMP/STR", 0, 1)>>,
    \* R2 := the bytes of R0 the other way round; R3 := the low byte of R1 extended.
    bytes |-> <<Op("SWAP.B", 0, 2), Op("SWAP.W", 2, 2), Op("SWAP.B", 2, 2),
                Op("EXTS.B", 1, 3)>>]

Zeros == [k \in Regs |-> 0]
Start(r, t, sat, mem) ==
    [r |-> r, t |-> t, q |-> 0, m |-> 0, s |-> sat, mach |-> 0, macl |-> 0, mem |-> mem]

\* The longs that MAC reads.
Longs == {0, 1, Size \div 2 - 1, Size \div 2, Size - 1}
Memories == {<<a, b, a, b>> : a, b \in Longs} \cup {<<a, a, b, b>> : a, b \in Longs}

\* Operands of the programs that take four of them, and of those that work by bytes.
Few == {0, 1, 7, 8, 15}
Bytewise == {0, 1, 2, 4, 27, 64, 85, 128, 170, 228, 254, 255}

\* Programs of registers of eight bits.
ByBytes == {"string", "bytes"}

Starts(p) ==
    CASE p \in ByBytes ->
           {Start([Zeros EXCEPT ![0] = a, ![1] = b], 0, 0, <<0>>) : a \in Bytewise, b \in Bytewise}
      [] p \in {"add", "sub", "neg", "shift", "round", "merge"} ->
           {Start(r, t, 0, <<0>>) : r \in [Regs -> Few], t \in {0, 1}}
      [] p = "divu" ->
           {Start([[Zeros EXCEPT ![0] = a, ![1] = b] EXCEPT ![2] = c], 1, 0, <<0>>) :
               a, b, c \in Word}
      [] p = "divs" ->
           {Start([Zeros EXCEPT ![0] = a, ![2] = c], 1, 0, <<0>>) : a, c \in Word}
      [] p \in {"macl", "macw", "square"} ->
           {Start([Zeros EXCEPT ![1] = 4], 0, sat, mem) : sat \in {0, 1}, mem \in Memories}
      [] OTHER ->
           {Start([Zeros EXCEPT ![0] = a, ![1] = b], 0, 0, <<0>>) : a, b \in Word}

\* The instructions of a program, in order.
Ran(insns, s) ==
    LET at[k \in 0 .. Len(insns)] ==
            IF k = 0 THEN s
            ELSE IF name \in ByBytes THEN Eight!Exec(at[k - 1], insns[k])
            ELSE Exec(at[k - 1], insns[k])
    IN  at[Len(insns)]

RunProgram ==
    /\ ~ran
    /\ ran' = TRUE
    /\ after' = Ran(Program[name], given)
    /\ UNCHANGED <<name, given>>

-----------------------------------------------------------------------------
(***************************************************************************)
(* The JIT's code and the interpreter's, one instruction at a time, from   *)
(* the same registers and memory.                                          *)
(***************************************************************************)

\* The registers that the instructions compared use.
Two == {0, 1}

Modes == {"Ind", "PostInc", "PreDec", "Disp", "R0Idx", "Gbr", "Pc"}
In(op, sz, mode, x, d, r) ==
    [op |-> op, sz |-> sz, ea |-> [mode |-> mode, x |-> x, d |-> d], r |-> r]
Forms ==
    {In("LOAD", sz, mode, x, d, r) : sz \in {"B", "W", "L"}, mode \in Modes \ {"PreDec"},
        x \in Two, d \in {0, 4}, r \in Two}
    \cup {In("STORE", sz, mode, x, d, r) : sz \in {"B", "W", "L"}, mode \in Modes \ {"PostInc", "Pc"},
        x \in Two, d \in {0, 4}, r \in Two}
    \cup {In("MOVA", "L", "Pc", 0, d, 0) : d \in {0, 4}}
Systems == {"SR", "GBR", "VBR", "MACH", "MACL", "PR"}
OnSystem == {[op |-> op, sys |-> y, r |-> r] : op \in {"PUSH", "POP", "LDS", "STS"}, y \in Systems, r \in Two}
OnBytes == {[op |-> op, imm |-> v, r |-> r] :
                op \in {"TST.B", "AND.B", "OR.B", "XOR.B", "TAS"}, v \in Byte, r \in Two}
Transfers == Forms \cup OnSystem \cup OnBytes
Computations == {[op |-> op, m |-> x, n |-> y, imm |-> 0] :
                    op \in {"ADDC", "SUBC", "NEGC", "CMP/STR", "DIV1"}, x, y \in Two}
Accumulations == {[op |-> op, m |-> x, n |-> y, imm |-> 0] : op \in {"MAC.L", "MAC.W"}, x, y \in Two}

State(r, t, q, m, sat, h, l, mem, gbr, bytes) ==
    [r |-> [k \in Regs |-> IF k \in Two THEN r[k] ELSE 0], t |-> t, q |-> q, m |-> m, s |-> sat, mach |-> h, macl |-> l, mem |-> mem,
     sys |-> [GBR |-> gbr, VBR |-> 3, PR |-> 6], bytes |-> bytes]

Images == {[x \in Address |-> ((x * x) + x \div 3) % 2], [x \in Address |-> (x \div 2) % 2],
           [x \in Address |-> IF x < 5 THEN 1 ELSE 0]}
Edge == {0, 1, 7, 8, 15}
States(i) ==
    CASE i \in Transfers ->
           {State(r, t, 0, 0, 0, 9, 5, <<0>>, g, b) :
                r \in [Two -> {0, 4, 8, 12}], t \in {0, 1}, g \in {0, 8}, b \in Images}
      [] i \in Computations ->
           {State(r, t, q, m, 0, 0, 0, <<0>>, 0, <<0>>) :
                r \in [Two -> Word], t, q, m \in {0, 1}}
      [] OTHER ->
           {State(r, 0, 0, 0, sat, h, l, mem, 0, <<0>>) :
                r \in [Two -> {0, 4}], sat \in {0, 1}, h, l \in Edge, mem \in {<<a, b>> : a, b \in Edge}}

\* An instruction at pc 2.
RunBoth ==
    /\ ~compared
    /\ compared' = TRUE
    /\ IF insn \in Transfers
       THEN live' = Transfer(before, insn, 2) /\ archived' = Interpret(before, insn, 4)
       ELSE live' = Exec(before, insn) /\ archived' = Compute(before, insn)
    /\ UNCHANGED <<insn, before>>

-----------------------------------------------------------------------------
\* Both decoders, on every word.
Decoders == INSTANCE Sh2Decode

NextWord == word % 256 # 255 /\ word' = word + 1

-----------------------------------------------------------------------------
\* Every program of four words in which branches and what they depend on stand next
\* to each other; a block is cut after three instructions.
Plain(op) == [op |-> op, imm |-> 1, disp |-> 0]
To(op, d) == [op |-> op, imm |-> 0, disp |-> d]

Branches ==
    {To(op, 1) : op \in {"BRA", "BSR", "BT", "BF", "BT/S", "BF/S"}} \cup {Plain(op) : op \in {"BRAF", "BSRF", "JMP", "JSR"} \cup {"RTS", "RTE"}}
Linears == {Plain("MOV"), Plain("MOV.W PC"), Plain("MOVA"), Plain("LDS PR"), Plain("CMP"), Plain("MOVT"),
            Plain("LDC SR"), Plain("MAC")}
Leaving == {Plain("TRAPA"), Plain("SLEEP"), Plain("UNKNOWN")}

All == Branches \cup Linears \cup Leaving

MCCodes == {c \in [0 .. 3 -> All] : c[0] \in Linears /\ c[3] \in Linears \cup {Plain("RTS")}}
MCStack == [pc |-> 2, t |-> 1]

Blocks == INSTANCE Sh2Blocks WITH Words <- 4, MaxBlock <- 3, Codes <- MCCodes, Stack <- MCStack

-----------------------------------------------------------------------------
\* A counter of 4 values over 24 cycles wraps three times at the fastest; three
\* dividers, two of them alike as in frc_divider.  Every dividend of six bits by
\* every divisor of three.
OnChip == INSTANCE OnChip WITH
    ByteSize <- 2, DividerOf <- [s \in 0 .. 3 |-> CASE s = 1 -> 4 [] s = 2 -> 6 [] OTHER -> 2],
    BlockCycles <- {0, 1, 3, 5}, MaxClock <- 24, Width <- 3, Mirrors <- TRUE

ASSUME InstanceAssumptions ==
    /\ AluAssumption
    /\ Blocks!BlockAssumption
    /\ OnChip!TimerAssumption /\ OnChip!DivuAssumption

-----------------------------------------------------------------------------
programVars == <<name, given, after, ran>>
insnVars == <<insn, before, live, archived, compared>>
wordVars == <<word>>
blocksVars == <<code, cpu, block>>
timerVars == <<now, base, time, select, ticking, phase, rescaled>>
divuVars == <<dvsr, dvdnt, ovf, dvdnth, dvdntl, mirrorh, mirrorl, division>>

\* The components a behaviour is not about stay in an initial state.
SuiteInit ==
    /\ part \in {"programs", "insns", "words", "blocks", "timer", "divu"}
    /\ \/ part = "programs" /\ name \in DOMAIN Program /\ given \in Starts(name)
           /\ after = given /\ ran = FALSE
       \/ /\ part # "programs"
          /\ name = "add" /\ given = Start(Zeros, 0, 0, <<0>>) /\ after = given /\ ran = TRUE
    /\ \/ part = "insns" /\ insn \in Transfers \cup Computations \cup Accumulations
           /\ before \in States(insn)
           /\ live = before /\ archived = before /\ compared = FALSE
       \/ /\ part # "insns"
          /\ insn = 0 /\ before = 0 /\ live = 0 /\ archived = 0 /\ compared = TRUE
    /\ \/ part = "words" /\ word \in {256 * k : k \in 0 .. 255}
       \/ part # "words" /\ word = 0
    /\ \/ part = "blocks" /\ Blocks!Init
       \/ /\ part # "blocks"
          /\ code = [a \in 0 .. 3 |-> Plain("MOV")] /\ Blocks!Init
    /\ OnChip!TimerInit
    /\ OnChip!DivuInit

ButForProgram == <<part, insnVars, wordVars, blocksVars, timerVars, divuVars>>
ButForInsn == <<part, programVars, wordVars, blocksVars, timerVars, divuVars>>
ButForWord == <<part, programVars, insnVars, blocksVars, timerVars, divuVars>>
ButForBlocks == <<part, programVars, insnVars, wordVars, timerVars, divuVars>>
ButForTimer == <<part, programVars, insnVars, wordVars, blocksVars, divuVars>>
ButForDivu == <<part, programVars, insnVars, wordVars, blocksVars, timerVars>>

SuiteNext ==
    \/ part = "programs" /\ RunProgram /\ UNCHANGED ButForProgram
    \/ part = "insns" /\ RunBoth /\ UNCHANGED ButForInsn
    \/ part = "words" /\ NextWord /\ UNCHANGED ButForWord
    \/ part = "blocks" /\ Blocks!Next /\ UNCHANGED ButForBlocks
    \/ part = "timer" /\ OnChip!TimerNext /\ UNCHANGED ButForTimer
    \/ part = "divu" /\ OnChip!DivuNext /\ UNCHANGED ButForDivu

suiteVars == <<part, programVars, insnVars, wordVars, blocksVars, timerVars, divuVars>>

SuiteSpec == SuiteInit /\ [][SuiteNext]_suiteVars

-----------------------------------------------------------------------------
Done(p) == name = p /\ ran
G == given.r
R == after.r
Pair(h, l) == h * Size + l
SignedPair(h, l) == Signed(h) * Size + l

\* DIV0U and DIV1, with the dividend turned through T, divide: the quotient that
\* fits a register comes out exact.
DividesUnsigned ==
    Done("divu") /\ G[1] < G[0] => R[2] = Pair(G[1], G[2]) \div G[0]

\* The same with DIV0S and the correction for negative operands: a quotient that
\* truncates, for every sign of both.
Truncated(n, d) ==
    LET a == IF n < 0 THEN -n ELSE n
        b == IF d < 0 THEN -d ELSE d
    IN  IF (n < 0) = (d < 0) THEN a \div b ELSE -(a \div b)
DividesSigned ==
    Done("divs") /\ G[0] # 0 /\ ~(Signed(G[0]) = -1 /\ G[2] = Size \div 2) =>
        Signed(R[2]) = Truncated(Signed(G[2]), Signed(G[0]))

\* The carry links registers into one wide number: sum, difference and negation of
\* pairs are exact and T is the last carry.
WideArithmetic ==
    LET a == Pair(G[3], G[1])
        b == Pair(G[2], G[0])
        result == Pair(R[3], R[1])
    IN  /\ Done("add") => result + after.t * Size * Size = a + b
        /\ Done("sub") => result - after.t * Size * Size = a - b
        /\ Done("neg") => result - after.t * Size * Size = -b

\* The overflow of a difference, SUBV, its sign and CMP/GE agree on the order of
\* signed numbers.
OrderAgrees ==
    Done("less") => /\ R[3] = Flag(Signed(G[1]) < Signed(G[0]))
                    /\ after.t = 1 - R[3]

\* Products of halves add up to the long product, and the signed long product is
\* the product of the signed operands.
ProductsAgree ==
    /\ Done("halves") => R[2] = after.macl
    /\ Done("signed") => SignedPair(R[2], R[3]) = Signed(G[0]) * Signed(G[1])

\* The products that MAC adds up, and their partial sums.
MacTerm(k) ==
    CASE name = "macl" -> Signed(LongAt(given, 4 * (k - 1))) * Signed(LongAt(given, 4 * k))
      [] name = "macw" -> SignedOf(WordAt(given, 2 * (k - 1)), Half)
                          * SignedOf(WordAt(given, 2 * (k + 1)), Half)
      [] name = "square" -> IF k > 2 THEN 0
                            ELSE Signed(given.mem[2 * k - 1]) * Signed(given.mem[2 * k])
MacSum ==
    LET sum[k \in 0 .. 4] == IF k = 0 THEN 0 ELSE sum[k - 1] + MacTerm(k) IN sum
Rising == \A k \in 1 .. 4 : MacTerm(k) >= 0
Falling == \A k \in 1 .. 4 : MacTerm(k) <= 0
Within(low, high) == \A k \in 1 .. 4 : MacSum[k] >= low /\ MacSum[k] <= high

\* A chain of MAC adds up exactly, or, with S, stops at the end of its range, 48
\* bits for MAC.L and those of MACL for MAC.W; both operands are read in turn, also
\* through one register; and MAC.W leaves a mark in MACH if it saturated.
MacAddsUp ==
    /\ Done("macl") \/ Done("square") =>
        IF given.s = 0 THEN Acc(after) = Wrapped(MacSum[4])
        ELSE /\ Within(-LongTop, LongTop - 1) => Acc(after) = MacSum[4]
             /\ Rising \/ Falling => Acc(after) = Clamped(MacSum[4])
    /\ Done("macw") =>
        IF given.s = 0 THEN Acc(after) = MacSum[4]
        ELSE LET fits == Within(-(Size \div 2), Size \div 2 - 1)
             IN  /\ after.mach = Flag(~fits)
                 /\ fits => Signed(after.macl) = MacSum[4]
                 /\ ~fits /\ Rising => after.macl = Size \div 2 - 1
                 /\ ~fits /\ Falling => after.macl = Size \div 2

\* Shifts through T double and halve pairs, a rotation comes round, and a merge by
\* a mask takes every bit from its side.
ShiftsLink ==
    /\ Done("shift") =>
        /\ Pair(R[1], R[0]) = (2 * Pair(G[1], G[0])) % (Size * Size)
        /\ SignedPair(R[3], R[2]) = SignedPair(G[3], G[2]) \div 2
        /\ after.t = G[2] % 2
    /\ Done("round") => R = G /\ after.t = G[3] \div (Size \div 2)
    /\ Done("merge") =>
        \A k \in 0 .. Width - 1 :
            Bit(R[3], k) = IF Bit(G[2], k) = 1 THEN Bit(G[0], k) ELSE Bit(G[1], k)

\* CMP/STR: T is set exactly if some byte of one register equals that of the other,
\* though the code looks for the borrow out of a zero byte.
ByteOf(v, k) == (v \div 4^k) % 4
StringsCompare ==
    Done("string") =>
        (after.t = 1 <=> \E k \in 0 .. 3 : ByteOf(G[0], k) = ByteOf(G[1], k))

\* The swaps reverse a register's bytes, and the extension keeps its low byte.
BytesMove ==
    Done("bytes") =>
        /\ \A k \in 0 .. 3 : ByteOf(R[2], k) = ByteOf(G[0], 3 - k)
        /\ R[3] = SignedOf(ByteOf(G[1], 0), 2) % 256

\* The idioms compute what they are written for: divisions by DIV1 with and without
\* sign, carries through pairs, comparisons by overflow, products by halves, chains
\* of MAC, shifts through T, bytes (emit_insn).
ProgramsCompute ==
    part = "programs" =>
        /\ DividesUnsigned /\ DividesSigned
        /\ WideArithmetic /\ OrderAgrees
        /\ ProductsAgree /\ MacAddsUp
        /\ ShiftsLink /\ StringsCompare /\ BytesMove

-----------------------------------------------------------------------------
\* The compiled code of a load or store, a push or pop, or a change of a byte in
\* memory does what the interpreter does, whichever registers coincide.
TransfersAgree == insn \in Transfers => live = archived

\* Carries, equal bytes and division steps, which each of the two computes its own way,
\* come out the same.
ComputationsAgree == insn \in Computations => live = archived

\* The accumulator stays in the bits that MAC.L saturates to.
InRange == Acc(before) \in -LongTop .. LongTop - 1

\* Products accumulate to the same sum, unless the accumulator was loaded with more
\* than 48 bits.  MAC.W is the same with S set, except that only the interpreter keeps
\* the other bits of MACH on an overflow; without S, only if MACH extends the sign of
\* MACL, because the interpreter accumulates in MACL alone.
AccumulationsAgree ==
    \/ insn \notin Accumulations
    \/ live = archived
    \/ insn.op = "MAC.L" /\ before.s = 1 /\ ~InRange
    \/ insn.op = "MAC.W" /\ before.s = 1 /\ before.mach \notin {0, 1}
    \/ insn.op = "MAC.W" /\ before.s = 0 /\ Acc(before) # Signed(before.macl)

\* A register that was pushed comes back with what it held, and the stack with it;
\* a register stored below another and loaded again comes back cut to its size.
WhatIsPushedComesBack ==
    /\ insn.op = "PUSH" =>
          LET z == LdsMem(SetSys(live, insn.sys, 0), insn)
          IN  compared => z.r = before.r /\ Sys(z, insn.sys) = Sys(before, insn.sys)
    /\ insn.op = "STORE" /\ insn.ea.mode = "PreDec" /\ insn.r # insn.ea.x =>
          LET z == Load(Set(live, insn.r, 0), [insn EXCEPT !.ea.mode = "PostInc"], 2)
          IN  compared => z.r = [before.r EXCEPT ![insn.r] = SignedOf(@, ByteBits * Bytes(insn.sz)) % Size]

\* The JIT and the interpreter leave the same registers, flags and memory behind
\* every instruction, whichever registers coincide, but for what is said above.
InterpretersAgree ==
    part = "insns" =>
        TransfersAgree /\ ComputationsAgree /\ AccumulationsAgree /\ WhatIsPushedComesBack

-----------------------------------------------------------------------------
\* No word matches two arms of decode: which of them Rust tries first does not matter,
\* the guarded arm of MAC.W included.
OneMeaning == Cardinality(Decoders!Meanings(word)) <= 1

\* Words in which the interpreter, like the hardware, does not look at the second
\* nibble and decode does.
NibbleIgnored == {\h0008, \h0018, \h0028, \h000B, \h001B, \h002B}

\* The two decoders of the repository, written apart from one another, read every word
\* as the same instruction with the same operands, except that decode takes the words
\* with a stray second nibble for unknown.
DecodersAgree ==
    \/ Decoders!Decode(word) = Decoders!Execute(word)
    \/ /\ Decoders!Under(\hF0FF, word) \in NibbleIgnored
       /\ Decoders!N(word) # 0
       /\ Decoders!Decode(word) = Decoders!Unknown

\* What a word is charged depends on the instruction that it is executed as and on T,
\* not on its operands.
ChargedByInstruction ==
    \A other \in {word - 256 * Decoders!N(word), word - 16 * Decoders!M(word)}, t \in {0, 1} :
        Decoders!BaseCycles(word, t) # Decoders!BaseCycles(other, t) => Decoders!Execute(word)[1] # Decoders!Execute(other)[1]

\* Every word has one meaning, and the two decoders and the table of cycles agree
\* about it (decode.rs, archived sh2.rs).
WordsHaveOneMeaning == part = "words" => OneMeaning /\ DecodersAgree /\ ChargedByInstruction

-----------------------------------------------------------------------------
\* A block does what its instructions do one at a time, delay slots and exceptional
\* exits included; it ends where an interrupt may come in; the cache files it under
\* the words it was made from; and the interpreter agrees, except on the pc that a taken
\* branch's slot reads, which is said (x64.rs, archived sh2.rs).
BlocksAreTheirInstructions ==
    part = "blocks" =>
        /\ Blocks!BlockIsItsInstructions
        /\ Blocks!EndsAtSr
        /\ Blocks!RangeIsWhatRan
        /\ Blocks!InterpreterAgrees

\* FRC, computed when it is read, is the count of a counter that ticks; a division is
\* exact or saturates and says so (onchip.rs).
OnChipIsExact ==
    /\ part = "timer" => OnChip!CountsLikeACounter
    /\ part = "divu" => OnChip!DivisionIsExact /\ OnChip!OverflowSaturates

=============================================================================
