----------------------------- MODULE Sh2Execute -----------------------------
(***************************************************************************)
(* What the linear instructions of the SH-2 do to its registers and to     *)
(* memory, as the code that the JIT emits for them does it (emit_insn) and *)
(* as the archived interpreter does. A register has Width bits, four bytes *)
(* of them; the product and the accumulator twice as many.                 *)
(***************************************************************************)
EXTENDS Integers, Sequences, Bitwise

CONSTANTS
    ByteBits,   \* 8
    Regs        \* general registers; R0 is among them

-----------------------------------------------------------------------------
(***************************************************************************)
(* Between registers. MAC alone reads memory, a few longs from address     *)
(* zero.                                                                   *)
(***************************************************************************)

AluAssumption == ByteBits \in Nat \ {0} /\ 0 \in Regs

Width == 4 * ByteBits

Half == 2 * ByteBits

Size == 2 ^ Width

Word == 0 .. Size - 1

-----------------------------------------------------------------------------
SignedOf(v, bits) ==
    IF (v % 2^bits) >= 2^(bits - 1) THEN (v % 2^bits) - 2^bits ELSE v % 2^bits

Signed(v) == SignedOf(v, Width)

Bit(v, k) == (v \div 2^k) % 2

Top(v) == Bit(v, Width - 1)

Flag(b) == IF b THEN 1 ELSE 0

Complement(v) == Size - 1 - v

\* The carry of an instruction's sum or difference; the register takes it modulo Size.
Carry(v) == Flag(v < 0 \/ v >= Size)

Overflow(v) == Flag(v < -(Size \div 2) \/ v >= Size \div 2)

Set(s, n, v) == [s EXCEPT !.r[n] = v % Size]

SetT(s, n, v, t) == [s EXCEPT !.r[n] = v % Size, !.t = t]

\* A long of memory: addresses are in bytes and four of them make a long.
LongAt(s, a) == s.mem[((a \div 4) % Len(s.mem)) + 1]

WordAt(s, a) ==
    IF a % 4 < 2 THEN LongAt(s, a) \div 2^Half ELSE LongAt(s, a) % 2^Half

-----------------------------------------------------------------------------
\* The two lower bytes exchanged.
BytesSwapped(v) ==
    (v \div 2^Half) * 2^Half + (v % 2^ByteBits) * 2^ByteBits
        + ((v \div 2^ByteBits) % 2^ByteBits)

Moves == {"MOV", "MOVT", "SWAP.B", "SWAP.W", "XTRCT", "EXTU.B", "EXTU.W", "EXTS.B", "EXTS.W"}

Move(s, i) ==
    LET m == s.r[i.m]
        n == s.r[i.n]
    IN  Set(s, i.n,
        CASE i.op = "MOV" -> m
          [] i.op = "MOVT" -> s.t
          [] i.op = "SWAP.B" -> BytesSwapped(m)
          [] i.op = "SWAP.W" -> (m % 2^Half) * 2^Half + m \div 2^Half
          [] i.op = "XTRCT" -> (m % 2^Half) * 2^Half + n \div 2^Half
          [] i.op = "EXTU.B" -> m % 2^ByteBits
          [] i.op = "EXTU.W" -> m % 2^Half
          [] i.op = "EXTS.B" -> SignedOf(m, ByteBits)
          [] i.op = "EXTS.W" -> SignedOf(m, Half))

NegcBorrow(m, t) == Carry(-m - t)

Arithmetic == {"ADD", "ADDI", "ADDC", "ADDV", "SUB", "SUBC", "SUBV", "NEG", "NEGC", "DT"}

Arith(s, i) ==
    LET m == s.r[i.m]
        n == s.r[i.n]
        t == s.t
    IN  CASE i.op = "ADD" -> Set(s, i.n, n + m)
          [] i.op = "ADDI" -> Set(s, i.n, n + i.imm)
          [] i.op = "ADDC" -> SetT(s, i.n, n + m + t, Carry(n + m + t))
          [] i.op = "ADDV" -> SetT(s, i.n, n + m, Overflow(Signed(n) + Signed(m)))
          [] i.op = "SUB" -> Set(s, i.n, n - m)
          [] i.op = "SUBC" -> SetT(s, i.n, n - m - t, Carry(n - m - t))
          [] i.op = "SUBV" -> SetT(s, i.n, n - m, Overflow(Signed(n) - Signed(m)))
          [] i.op = "NEG" -> Set(s, i.n, -m)
          [] i.op = "NEGC" -> SetT(s, i.n, -m - t, NegcBorrow(m, t))
          [] i.op = "DT" -> SetT(s, i.n, n - 1, Flag(n = 1))

Logical == {"AND", "OR", "XOR", "NOT", "TST"}

Logic(s, i) ==
    LET m == s.r[i.m]
        n == s.r[i.n]
    IN  CASE i.op = "AND" -> Set(s, i.n, n & m)
          [] i.op = "OR" -> Set(s, i.n, n | m)
          [] i.op = "XOR" -> Set(s, i.n, n ^^ m)
          [] i.op = "NOT" -> Set(s, i.n, Complement(m))
          [] i.op = "TST" -> [s EXCEPT !.t = Flag((n & m) = 0)]

\* A word with bit k of every byte set.
EveryByte(k) == 2^k * (1 + 2^ByteBits + 2^(2 * ByteBits) + 2^(3 * ByteBits))

\* The test for a zero byte of v, by the borrow out of it.
HasZeroByte(v) ==
    (((v - EveryByte(0)) % Size) & Complement(v) & EveryByte(ByteBits - 1)) # 0

Comparisons == {"CMP/EQ", "CMP/HS", "CMP/GE", "CMP/HI", "CMP/GT", "CMP/STR", "CMP/PL", "CMP/PZ"}

Compare(s, i) ==
    LET m == s.r[i.m]
        n == s.r[i.n]
    IN  [s EXCEPT !.t = Flag(
        CASE i.op = "CMP/EQ" -> n = m
          [] i.op = "CMP/HS" -> n >= m
          [] i.op = "CMP/GE" -> Signed(n) >= Signed(m)
          [] i.op = "CMP/HI" -> n > m
          [] i.op = "CMP/GT" -> Signed(n) > Signed(m)
          [] i.op = "CMP/STR" -> HasZeroByte(n ^^ m)
          [] i.op = "CMP/PL" -> Signed(n) > 0
          [] i.op = "CMP/PZ" -> Signed(n) >= 0)]

-----------------------------------------------------------------------------
Differ(a, b) == (a + b) % 2

Div0(s, i) ==
    IF i.op = "DIV0U" THEN [s EXCEPT !.q = 0, !.m = 0, !.t = 0]
    ELSE LET q == Top(s.r[i.n])
             m == Top(s.r[i.m])
         IN  [s EXCEPT !.q = q, !.m = m, !.t = Differ(q, m)]

\* Mutant: M is left out of the new Q.
Div1WithoutM(s, i) ==
    LET n == s.r[i.n]
        shifted == ((2 * n) % Size) + s.t
        sum == IF s.q = s.m THEN shifted - s.r[i.m] ELSE shifted + s.r[i.m]
        q == Differ(Carry(sum), Top(n))
    IN  [SetT(s, i.n, sum, 1 - Differ(q, s.m)) EXCEPT !.q = q]

\* One step of a division: the dividend's next bit comes in by T, the divisor is
\* subtracted, or added if the step before went below zero.
Div1(s, i) ==
    LET n == s.r[i.n]
        shifted == ((2 * n) % Size) + s.t
        sum == IF s.q = s.m THEN shifted - s.r[i.m] ELSE shifted + s.r[i.m]
        q == Differ(Differ(Carry(sum), Top(n)), s.m)
    IN  [SetT(s, i.n, sum, 1 - Differ(q, s.m)) EXCEPT !.q = q]

-----------------------------------------------------------------------------
\* MACH and MACL as one number, and back.
Acc(s) == SignedOf(s.mach, Width) * Size + s.macl

SetAcc(s, v) == [s EXCEPT !.macl = v % Size, !.mach = (v \div Size) % Size]

Wrapped(v) == SignedOf(v, 2 * Width)

\* Where the accumulator of MAC.L saturates: 48 of its 64 bits.
LongTop == 2 ^ (Width + Half - 1)

Clamped(v) == IF v > LongTop - 1 THEN LongTop - 1 ELSE IF v < -LongTop THEN -LongTop ELSE v

UnsignedWord(v) == v % 2^Half

Products == {"MUL.L", "MULS.W", "MULU.W", "DMULS", "DMULU", "CLRMAC"}

Multiply(s, i) ==
    LET m == s.r[i.m]
        n == s.r[i.n]
    IN  CASE i.op = "MUL.L" -> [s EXCEPT !.macl = (n * m) % Size]
          [] i.op = "MULS.W" -> [s EXCEPT !.macl = (SignedOf(n, Half) * SignedOf(m, Half)) % Size]
          [] i.op = "MULU.W" -> [s EXCEPT !.macl = (UnsignedWord(n) * UnsignedWord(m)) % Size]
          [] i.op = "DMULS" -> SetAcc(s, Signed(n) * Signed(m))
          [] i.op = "DMULU" -> SetAcc(s, n * m)
          [] i.op = "CLRMAC" -> SetAcc(s, 0)

\* Rn is read and advanced before Rm, which may be the same register.
Advanced(s, i, step) ==
    LET t == Set(s, i.n, s.r[i.n] + step) IN Set(t, i.m, t.r[i.m] + step)

SecondAddress(s, i, step) == IF i.m = i.n THEN (s.r[i.m] + step) % Size ELSE s.r[i.m]

MacL(s, i) ==
    LET a == Signed(LongAt(s, s.r[i.n]))
        b == Signed(LongAt(s, SecondAddress(s, i, 4)))
        sum == Wrapped(a * b + Acc(s))
    IN  SetAcc(Advanced(s, i, 4), IF s.s = 1 THEN Clamped(sum) ELSE sum)

\* MAC.W accumulates in both registers, or in MACL alone if S is set.
MacW(s, i) ==
    LET a == SignedOf(WordAt(s, s.r[i.n]), Half)
        b == SignedOf(WordAt(s, SecondAddress(s, i, 2)), Half)
        t == Advanced(s, i, 2)
        sum == Signed(s.macl) + a * b
    IN  IF s.s = 0 THEN SetAcc(t, Wrapped(a * b + Acc(s)))
        ELSE IF Overflow(sum) = 0 THEN [t EXCEPT !.macl = sum % Size]
        ELSE [t EXCEPT !.macl = IF a * b < 0 THEN Size \div 2 ELSE Size \div 2 - 1,
                       !.mach = 1]

-----------------------------------------------------------------------------
Shifts == {"SHLL", "SHLR", "SHAR", "ROTL", "ROTR", "ROTCL", "ROTCR"}

\* The bit that a shift or a rotation lets in.
ShiftedIn(op, n, t) ==
    CASE op \in {"SHLL", "SHLR"} -> 0
      [] op = "SHAR" -> Top(n)
      [] op = "ROTL" -> Top(n)
      [] op = "ROTR" -> n % 2
      [] op \in {"ROTCL", "ROTCR"} -> t

Shift(s, i) ==
    LET n == s.r[i.n]
        in == ShiftedIn(i.op, n, s.t)
    IN  IF i.op \in {"SHLL", "ROTL", "ROTCL"}
        THEN SetT(s, i.n, 2 * n + in, Top(n))
        ELSE SetT(s, i.n, n \div 2 + in * (Size \div 2), n % 2)

\* SHLL2, SHLR8 and so on: by imm bits at once, T as it was.
ShiftBy(s, i) ==
    Set(s, i.n, IF i.op = "SHLLn" THEN s.r[i.n] * 2^i.imm ELSE s.r[i.n] \div 2^i.imm)

Exec(s, i) ==
    CASE i.op \in Moves -> Move(s, i)
      [] i.op \in Arithmetic -> Arith(s, i)
      [] i.op \in Logical -> Logic(s, i)
      [] i.op \in Comparisons -> Compare(s, i)
      [] i.op \in {"DIV0U", "DIV0S"} -> Div0(s, i)
      [] i.op = "DIV1" -> Div1(s, i)
      [] i.op \in Products -> Multiply(s, i)
      [] i.op = "MAC.L" -> MacL(s, i)
      [] i.op = "MAC.W" -> MacW(s, i)
      [] i.op \in Shifts -> Shift(s, i)
      [] i.op \in {"SHLLn", "SHLRn"} -> ShiftBy(s, i)
      [] i.op = "SETT" -> [s EXCEPT !.t = 1]
      [] i.op = "CLRT" -> [s EXCEPT !.t = 0]
      [] i.op = "STS MACL" -> Set(s, i.n, s.macl)
      [] i.op = "STS MACH" -> Set(s, i.n, s.mach)

-----------------------------------------------------------------------------
(***************************************************************************)
(* Between registers and memory: loads and stores in all address modes,    *)
(* system registers to and from the stack, and the instructions that       *)
(* change one byte. Memory is a byte for every address that a register can *)
(* hold, most significant byte first.                                      *)
(***************************************************************************)

Address == 0 .. Size - 1

Byte == 0 .. 2^ByteBits - 1

Bytes(sz) == CASE sz = "B" -> 1 [] sz = "W" -> 2 [] sz = "L" -> 4

\* What the bus returns for a, which is a multiple of the size.
Read(s, sz, a) ==
    LET b(k) == s.bytes[(a + k) % Size]
    IN  CASE sz = "B" -> b(0)
          [] sz = "W" -> b(0) * 2^ByteBits + b(1)
          [] sz = "L" -> (b(0) * 2^ByteBits + b(1)) * 2^Half + b(2) * 2^ByteBits + b(3)

Write(s, sz, a, v) ==
    LET n == Bytes(sz)
    IN  [s EXCEPT !.bytes = [x \in Address |->
            IF (x - a) % Size < n THEN (v \div 2^(ByteBits * (n - 1 - ((x - a) % Size)))) % 2^ByteBits
            ELSE @[x]]]

\* The bits of SR that are kept here are T and S.
Masked(v) == v % 4

Sys(s, r) ==
    CASE r = "SR" -> 2 * s.s + s.t
      [] r = "MACH" -> s.mach
      [] r = "MACL" -> s.macl
      [] OTHER -> s.sys[r]

SetSys(s, r, v) ==
    CASE r = "SR" -> [s EXCEPT !.t = Masked(v) % 2, !.s = Masked(v) \div 2]
      [] r = "MACH" -> [s EXCEPT !.mach = v]
      [] r = "MACL" -> [s EXCEPT !.macl = v]
      [] OTHER -> [s EXCEPT !.sys[r] = v]

-----------------------------------------------------------------------------
\* Where a PC-relative transfer at pc finds its operand.
PcRelative(sz, pc, d) == (IF sz = "W" THEN pc + 4 + d ELSE pc - (pc % 4) + 4 + d) % Size

\* ea_to_esi: the address, and the registers once it has been stepped.
Ea(s, sz, ea, pc) ==
    LET x == s.r[ea.x]
        n == Bytes(sz)
    IN  CASE ea.mode = "Ind" -> [a |-> x, s |-> s]
          [] ea.mode = "PostInc" -> [a |-> x, s |-> Set(s, ea.x, x + n)]
          [] ea.mode = "PreDec" -> [a |-> (x - n) % Size, s |-> Set(s, ea.x, x - n)]
          [] ea.mode = "Disp" -> [a |-> (x + ea.d) % Size, s |-> s]
          [] ea.mode = "R0Idx" -> [a |-> (s.r[0] + x) % Size, s |-> s]
          [] ea.mode = "Gbr" -> [a |-> (s.sys["GBR"] + ea.d) % Size, s |-> s]
          [] ea.mode = "Pc" -> [a |-> PcRelative(sz, pc, ea.d), s |-> s]

\* The register is loaded last: an address register that is also the destination
\* keeps what was loaded.
Load(s, i, pc) ==
    LET e == Ea(s, i.sz, i.ea, pc)
    IN  Set(e.s, i.r, SignedOf(Read(e.s, i.sz, e.a), ByteBits * Bytes(i.sz)))

\* The stored register is read first: one that is stepped down is stored as it was.
Store(s, i, pc) ==
    LET e == Ea(s, i.sz, i.ea, pc) IN Write(e.s, i.sz, e.a, s.r[i.r])

StsMem(s, i) == LET a == s.r[i.r] - 4 IN Write(Set(s, i.r, a), "L", a % Size, Sys(s, i.sys))

LdsMem(s, i) == SetSys(Set(s, i.r, s.r[i.r] + 4), i.sys, Read(s, "L", s.r[i.r]))

\* TST.B and the instructions that combine a byte at R0 + GBR with an immediate value.
TstB(s, i) ==
    LET a == (s.r[0] + s.sys["GBR"]) % Size IN [s EXCEPT !.t = Flag((s.bytes[a] & i.imm) = 0)]

RmwGbrByte(s, i) ==
    LET a == (s.r[0] + s.sys["GBR"]) % Size
        v == s.bytes[a]
    IN  Write(s, "B", a, CASE i.op = "AND.B" -> v & i.imm
                           [] i.op = "OR.B" -> v | i.imm
                           [] i.op = "XOR.B" -> v ^^ i.imm)

Tas(s, i) ==
    LET a == s.r[i.r]
    IN  [Write(s, "B", a, s.bytes[a] | 2^(ByteBits - 1)) EXCEPT !.t = Flag(s.bytes[a] = 0)]

Transfer(s, i, pc) ==
    CASE i.op = "LOAD" -> Load(s, i, pc)
      [] i.op = "STORE" -> Store(s, i, pc)
      [] i.op = "PUSH" -> StsMem(s, i)
      [] i.op = "POP" -> LdsMem(s, i)
      [] i.op = "LDS" -> SetSys(s, i.sys, s.r[i.r])
      [] i.op = "STS" -> Set(s, i.r, Sys(s, i.sys))
      [] i.op = "MOVA" -> Set(s, 0, PcRelative("L", pc, i.ea.d))
      [] i.op = "TST.B" -> TstB(s, i)
      [] i.op \in {"AND.B", "OR.B", "XOR.B"} -> RmwGbrByte(s, i)
      [] i.op = "TAS" -> Tas(s, i)

-----------------------------------------------------------------------------
(***************************************************************************)
(* The archived interpreter's execute(), for the same instructions: one at *)
(* a time, with pc already behind it.                                      *)
(***************************************************************************)

\* Addresses, from a pc that is two ahead of the instruction.
AddressOf(s, i, after) ==
    LET x == s.r[i.ea.x]
    IN  (CASE i.ea.mode \in {"Ind", "PostInc"} -> x
           [] i.ea.mode = "PreDec" -> x - Bytes(i.sz)
           [] i.ea.mode = "Disp" -> x + i.ea.d
           [] i.ea.mode = "R0Idx" -> s.r[0] + x
           [] i.ea.mode = "Gbr" -> s.sys["GBR"] + i.ea.d
           [] i.ea.mode = "Pc" ->
                IF i.sz = "W" THEN after + 2 - ((after + 2) % 2) + i.ea.d
                ELSE after + 2 - ((after + 2) % 4) + i.ea.d) % Size

Loaded(s, i, after) ==
    LET a == AddressOf(s, i, after)
        t == Set(s, i.r, SignedOf(Read(s, i.sz, a), ByteBits * Bytes(i.sz)))
    IN  IF i.ea.mode = "PostInc" /\ i.ea.x # i.r THEN Set(t, i.ea.x, a + Bytes(i.sz)) ELSE t

Stored(s, i, after) ==
    LET a == AddressOf(s, i, after)
        t == Write(s, i.sz, a, s.r[i.r])
    IN  IF i.ea.mode = "PreDec" THEN Set(t, i.ea.x, a) ELSE t

OnByte(s, i) ==
    LET a == (s.sys["GBR"] + s.r[0]) % Size
        v == Read(s, "B", a)
    IN  CASE i.op = "TST.B" -> [s EXCEPT !.t = Flag((v & i.imm) = 0)]
          [] i.op = "AND.B" -> Write(s, "B", a, v & i.imm)
          [] i.op = "XOR.B" -> Write(s, "B", a, v ^^ i.imm)
          [] i.op = "OR.B" -> Write(s, "B", a, v | i.imm)
          [] i.op = "TAS" ->
               [Write(s, "B", s.r[i.r], s.bytes[s.r[i.r]] | 2^(ByteBits - 1))
                    EXCEPT !.t = Flag(s.bytes[s.r[i.r]] = 0)]

Interpret(s, i, after) ==
    CASE i.op = "LOAD" -> Loaded(s, i, after)
      [] i.op = "STORE" -> Stored(s, i, after)
      [] i.op = "PUSH" ->
           LET a == (s.r[i.r] - 4) % Size IN Set(Write(s, "L", a, Sys(s, i.sys)), i.r, a)
      [] i.op = "POP" ->
           Set(SetSys(s, i.sys, Read(s, "L", s.r[i.r])), i.r, s.r[i.r] + 4)
      [] i.op = "LDS" -> SetSys(s, i.sys, s.r[i.r])
      [] i.op = "STS" -> Set(s, i.r, Sys(s, i.sys))
      [] i.op = "MOVA" -> Set(s, 0, after + 2 - ((after + 2) % 4) + i.ea.d)
      [] OTHER -> OnByte(s, i)

-----------------------------------------------------------------------------
\* The arms that reach a result by another way than the compiled code does.

\* Two sums or differences, and the carry of either.
Twice(a, b, t) ==
    LET once == a + b
        twice == (once % Size) + t
    IN  [v |-> twice, c |-> Flag(Carry(once) = 1 \/ Carry(twice) = 1)]

Carried(s, i) ==
    LET m == s.r[i.m]
        n == s.r[i.n]
        x == CASE i.op = "ADDC" -> Twice(n, m, s.t)
               [] i.op = "SUBC" -> Twice(n, -m, -s.t)
               [] i.op = "NEGC" -> Twice(0, -m, -s.t)
    IN  SetT(s, i.n, x.v, x.c)

\* CMP/STR byte by byte.
EqualByte(s, i) ==
    LET x == s.r[i.n] ^^ s.r[i.m]
    IN  [s EXCEPT !.t = Flag(\E k \in 0 .. 3 : (x \div 2^(k * ByteBits)) % 2^ByteBits = 0)]

\* Mutant: old Q and M are compared the wrong way round in one of the four cases.
Divided1Crossed(s, i) ==
    LET old == s.r[i.n]
        top == Top(old)
        shifted == ((2 * old) % Size) + s.t
        sub == s.q = s.m
        r == (IF sub THEN shifted - s.r[i.m] ELSE shifted + s.r[i.m]) % Size
        carry == Flag(IF sub THEN r > shifted ELSE r < shifted)
        q == IF <<s.q, s.m>> \in {<<0, 0>>, <<1, 0>>, <<0, 1>>} THEN IF top = 0 THEN carry ELSE 1 - carry
             ELSE IF top = 0 THEN 1 - carry ELSE carry
    IN  [s EXCEPT !.r[i.n] = r, !.q = q, !.t = Flag(q = s.m)]

\* DIV1: subtract if old Q and M are alike, add otherwise; a borrow shows as a
\* difference above, a carry as a sum below what it was made from.
Divided1(s, i) ==
    LET old == s.r[i.n]
        top == Top(old)
        shifted == ((2 * old) % Size) + s.t
        sub == s.q = s.m
        r == (IF sub THEN shifted - s.r[i.m] ELSE shifted + s.r[i.m]) % Size
        carry == Flag(IF sub THEN r > shifted ELSE r < shifted)
        q == IF <<s.q, s.m>> \in {<<0, 0>>, <<1, 0>>} THEN IF top = 0 THEN carry ELSE 1 - carry
             ELSE IF top = 0 THEN 1 - carry ELSE carry
    IN  [s EXCEPT !.r[i.n] = r, !.q = q, !.t = Flag(q = s.m)]

Accumulated(s, i) ==
    LET a == Signed(LongAt(s, s.r[i.n]))
        b == Signed(LongAt(s, SecondAddress(s, i, 4)))
        sum == Wrapped(a * b + Acc(s))
    IN  SetAcc(Advanced(s, i, 4),
               IF s.s = 1 /\ Clamped(sum) # sum THEN IF a * b < 0 THEN -LongTop ELSE LongTop - 1
               ELSE sum)

\* MAC.W, m first; without S the sum with MACL alone replaces both halves.
AccumulatedWord(s, i) ==
    LET swapped == [i EXCEPT !.m = i.n, !.n = i.m]
        a == SignedOf(WordAt(s, s.r[i.m]), Half)
        b == SignedOf(WordAt(s, SecondAddress(s, swapped, 2)), Half)
        t == Advanced(s, swapped, 2)
        sum == Signed(s.macl) + a * b
    IN  IF s.s = 0 THEN SetAcc(t, sum)
        ELSE IF Overflow(sum) = 0 THEN [t EXCEPT !.macl = sum % Size]
        ELSE [t EXCEPT !.macl = IF a * b < 0 THEN Size \div 2 ELSE Size \div 2 - 1,
                       !.mach = @ | 1]

Compute(s, i) ==
    CASE i.op \in {"ADDC", "SUBC", "NEGC"} -> Carried(s, i)
      [] i.op = "CMP/STR" -> EqualByte(s, i)
      [] i.op = "DIV1" -> Divided1(s, i)
      [] i.op = "MAC.L" -> Accumulated(s, i)
      [] i.op = "MAC.W" -> AccumulatedWord(s, i)

=============================================================================
