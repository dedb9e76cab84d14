------------------------------ MODULE ScspDsp -------------------------------
(***************************************************************************)
(* The effect DSP of the SCSP: a microprogram that runs once a sample over *)
(* a ring buffer in sound RAM. TEMP and the ring turn under the program by *)
(* a counter that goes down once a sample; memory is read and written a    *)
(* step late, and the shifter lags a step behind. Words have their 24      *)
(* bits; the memories are as small as the constants say.                   *)
(***************************************************************************)
EXTENDS Integers, Sequences

CONSTANTS
    TempSize,   \* 128 words of TEMP
    RingUnit,   \* 0x2000: length of the smallest ring
    Pages,      \* places where a ring may begin, half a unit apart
    Lengths,    \* values of RBL that the driver sets
    Programs,   \* microprograms: coef, madrs and the steps up to the last filled one
    Inputs,     \* what the slots send to MIXS
    MaxChanges  \* bound on changes of the ring and of the program

VARIABLES
    program,
    rbp, rbl,         \* where the ring is, and its length
    ct,               \* mdec_ct
    dsp,              \* the registers of the pipeline
    ram,
    heard,            \* history: the inputs since the last change, the last first
    changes           \* history: changes of the ring or the program

-----------------------------------------------------------------------------
(***************************************************************************)
(* The floating-point words of the ring buffer: a sign, a four-bit         *)
(* exponent and eleven bits of mantissa.                                   *)
(***************************************************************************)

Exponent(x) == (x \div 2^11) % 16

Mantissa(x) == x % 2^11

IsNegative(x) == x >= 2^15

\* Sign extension of a word of n bits.
Signed(v, n) == IF v >= 2^(n - 1) THEN v - 2^n ELSE v

\* The bit above the mantissa is the sign's opposite, unless the exponent is the
\* last one: there it is the sign, and the number is small.
FloatToInt(x) ==
    LET sign == IF IsNegative(x) THEN 1 ELSE 0
        top == IF Exponent(x) > 11 THEN sign ELSE 1 - sign
        e == IF Exponent(x) > 11 THEN 11 ELSE Exponent(x)
    IN  (-sign * 2^23 + top * 2^22 + Mantissa(x) * 2^11) \div 2^e

\* v shifted up until its top bit is set or eleven shifts are done, and the shifts.
Normalised(v) ==
    LET Scale(p, below, by) ==
            IF p[1] < below THEN <<p[1] * 2^by, p[2] + by>> ELSE p
    IN  Scale(Scale(Scale(Scale(<<v, 0>>, 2^17, 6), 2^20, 3), 2^22, 1), 2^22, 1)

\* v is a word of 24 bits.  A negative one is inverted, and its mantissa again.
IntToFloat(v) ==
    LET negative == v >= 2^23
        n == Normalised(IF negative THEN 2^24 - 1 - v ELSE v)
        e == n[2] + (IF n[1] < 2^22 THEN 1 ELSE 0)
        mant == (n[1] \div 2^11) % 2^11
    IN  IF negative THEN 2^15 + e * 2^11 + (2^11 - 1 - mant) ELSE e * 2^11 + mant

\* Words of 24 bits.
Word24(i) == i % 2^24

\* The floats that a conversion makes: exponent 12 stands for all above it.
Canonical(x) == Exponent(x) <= 12

\* A float comes back as it was from its integer, as the smallest exponent it can
\* be written with.
FloatsRoundTrip(f) == Canonical(f) => IntToFloat(Word24(FloatToInt(f))) = f

\* The least float above x.
Above(x) ==
    IF IsNegative(x)
    THEN IF x = 2^15 + 13 * 2^11 - 1 THEN 12 * 2^11 ELSE x + 1
    ELSE IF Mantissa(x) = 2^11 - 1 THEN (Exponent(x) - 1) * 2^11
    ELSE x + 1

HasAbove(x) == Canonical(x) /\ x # 2^11 - 1

\* A word between two neighbouring floats becomes the lower one, on both sides of
\* zero and at every change of exponent: the conversion never rounds up and never
\* skips a float, so that what the ring buffer returns is less than one step of
\* the format below what went in.
CutsDown(f) ==
    HasAbove(f) =>
        LET here == FloatToInt(f)
            above == FloatToInt(Above(f))
        IN  /\ here < above
            /\ \A v \in {here, (here + above) \div 2, above - 1} :
                   IntToFloat(Word24(v)) = f

-----------------------------------------------------------------------------
(***************************************************************************)
(* The program and its memories.                                           *)
(***************************************************************************)

RingAssumption ==
    /\ TempSize \in Nat \ {0} /\ RingUnit \in Nat \ {0}
    \* Every ring is a whole number of turns of TEMP.
    /\ RingUnit % TempSize = 0
    /\ Pages \subseteq Nat /\ Lengths \subseteq 0 .. 3
    /\ RingUnit % 2 = 0 /\ MaxChanges \in Nat

RingLength(n) == RingUnit * 2^n

RingStart(p) == p * (RingUnit \div 2)

Longest == RingLength(CHOOSE n \in Lengths : \A l \in Lengths : l <= n)

RamSize == RingStart(CHOOSE p \in Pages : \A q \in Pages : q <= p) + Longest

Empty ==
    [temp |-> [i \in 0 .. TempSize - 1 |-> 0], mems |-> 0, inputs |-> 0,
     shift |-> 0, frc |-> 0, y |-> 0, adrs |-> 0, ioAddr |-> 0,
     readPending |-> "none", writePending |-> FALSE, writeValue |-> 0, readValue |-> 0,
     efreg |-> 0]

Init ==
    /\ program \in Programs
    /\ rbp = 0 /\ rbl = 0
    /\ ct = 0
    /\ dsp = Empty
    /\ ram = [a \in 0 .. RamSize - 1 |-> 0]
    /\ heard = <<>> /\ changes = 0

-----------------------------------------------------------------------------
Clamped(v) == IF v < -2^23 THEN -2^23 ELSE IF v > 2^23 - 1 THEN 2^23 - 1 ELSE v

\* The shifter: what the step before accumulated, doubled if one of the bits is
\* set, clamped unless shift1 is.
Shifted(d, op) ==
    LET v == Signed(d.shift, 26) * (IF op.shift0 # op.shift1 THEN 2 ELSE 1)
    IN  (IF op.shift1 THEN v ELSE Clamped(v)) % 2^24

\* y * x >> 12, x of 24 bits and y of 13.
Product(y, x) == y * (x \div 2^12) + (y * (x % 2^12)) \div 2^12

\* What a step's input bus holds: a mixer input, a memory input, or as before.
InputOf(d, op, mix) ==
    CASE op.ira = "mixs" -> (mix * 16) % 2^24
      [] op.ira = "mems" -> d.mems
      [] op.ira = "external" -> 0
      [] OTHER -> d.inputs

\* The four sources of the multiplier's second factor.
Factor(d, op) ==
    CASE op.ysel = 0 -> d.frc
      [] op.ysel = 1 -> program.coef
      [] op.ysel = 2 -> (d.y \div 2^11) % 2^13
      [] OTHER -> (d.y \div 2^4) % 2^12

\* The word the ring holds for a 24-bit word: its upper 16 bits, or a float.
Stored(v, nofl) == IF nofl THEN v \div 2^8 ELSE IntToFloat(v)

Loaded(w, kind) == IF kind = "plain" THEN (w * 2^8) % 2^24 ELSE Word24(FloatToInt(w))

\* The address a step leaves for the next one.
Address(d, op, at) ==
    LET a == program.madrs[op.masa] + (IF op.nxadr THEN 1 ELSE 0)
             + (IF op.adreb THEN Signed((d.adrs % 2^12), 12) ELSE 0)
    IN  (RingStart(rbp) + (IF op.table THEN a ELSE (a + at) % RingLength(rbl))) % RamSize

\* A read that is pending comes before a write; both use the address of the step
\* before.
Serviced(s) ==
    LET d == s.d
    IN  IF d.readPending # "none"
        THEN [s EXCEPT !.d.readValue = Loaded(s.ram[d.ioAddr], d.readPending),
                       !.d.readPending = "none"]
        ELSE IF d.writePending
        THEN [s EXCEPT !.ram[d.ioAddr] = d.writeValue, !.d.writePending = FALSE]
        ELSE s

\* exec: one step, on the registers and the memory of s.
Exec(s, op, mix, at) ==
    LET d == s.d
        input == InputOf(d, op, mix)
        temp == Signed(d.temp[(op.tra + at) % TempSize], 24)
        x == IF op.xsel THEN Signed(input, 24) ELSE temp
        y == Signed(Factor(d, op) % 2^13, 13)
        out == Shifted(d, op)
        b == IF op.zero THEN 0
             ELSE (IF op.negb THEN -1 ELSE 1) * (IF op.bsel THEN d.shift ELSE temp)
        done == [s.d EXCEPT
                    !.inputs = input,
                    !.y = IF op.yrl THEN input ELSE @,
                    !.efreg = IF op.ewt THEN Signed(out \div 2^8, 16) ELSE @,
                    !.temp[(op.twa + at) % TempSize] = IF op.twt THEN out ELSE @,
                    !.frc = IF ~op.frcl THEN @
                            ELSE IF op.shift0 /\ op.shift1 THEN out % 2^12 ELSE out \div 2^11,
                    !.shift = (Product(y, x) + b) % 2^26,
                    !.mems = IF op.iwt THEN d.readValue ELSE @]
        t == Serviced([s EXCEPT !.d = done])
    IN  [t EXCEPT
            !.d.ioAddr = Address(d, op, at),
            !.d.readPending = IF op.mrd THEN (IF op.nofl THEN "plain" ELSE "float") ELSE @,
            !.d.writePending = op.mwt \/ @,
            !.d.writeValue = IF op.mwt THEN Stored(out, op.nofl) ELSE @,
            !.d.adrs = IF ~op.adrl THEN @
                       ELSE IF op.shift0 /\ op.shift1 THEN out \div 2^12
                       ELSE (Signed(input, 24) \div 2^16) % 2^12]

\* The steps of a program, in order.
Run(mix) ==
    LET after[n \in 0 .. Len(program.steps)] ==
            IF n = 0 THEN [d |-> dsp, ram |-> ram]
            ELSE Exec(after[n - 1], program.steps[n], mix, ct)
    IN  after[Len(program.steps)]

\* Mutant: the counter stops at one.
CountedShort(n) == IF n <= 1 THEN RingLength(rbl) - 1 ELSE n - 1

\* The counter wraps to the length of the ring and is never taken below zero.
Counted(n) == (IF n = 0 THEN RingLength(rbl) ELSE n) - 1

-----------------------------------------------------------------------------
Changed == changes < MaxChanges /\ changes' = changes + 1 /\ heard' = <<>>

RunSample(mix) ==
    /\ LET s == Run(mix) IN dsp' = s.d /\ ram' = s.ram
    /\ ct' = Counted(ct)
    /\ heard' = SubSeq(<<mix>> \o heard, 1, IF Len(heard) < Longest THEN Len(heard) + 1 ELSE Longest)
    /\ UNCHANGED <<program, rbp, rbl, changes>>

\* The ring's register: its length takes effect at once, the counter only if it is
\* at zero.
SetRing(p, n) ==
    /\ rbp' = p /\ rbl' = n
    /\ ct' = IF ct = 0 THEN RingLength(n) ELSE ct
    /\ Changed
    /\ UNCHANGED <<program, dsp, ram>>

SetProgram(q) ==
    /\ program' = q
    /\ Changed
    /\ UNCHANGED <<rbp, rbl, ct, dsp, ram>>

Next ==
    \/ \E mix \in Inputs : RunSample(mix)
    \/ \E p \in Pages, n \in Lengths : SetRing(p, n)
    \/ \E q \in Programs : SetProgram(q)

-----------------------------------------------------------------------------
TypeOK ==
    /\ program \in Programs
    /\ rbp \in Pages \cup {0} /\ rbl \in Lengths \cup {0}
    /\ ct \in 0 .. Longest
    /\ dsp.ioAddr \in 0 .. RamSize - 1
    /\ dsp.temp \in [0 .. TempSize - 1 -> 0 .. 2^24 - 1]
    /\ dsp.shift \in 0 .. 2^26 - 1
    /\ ram \in [0 .. RamSize - 1 -> 0 .. 2^16 - 1]
    /\ Len(heard) <= Longest /\ changes \in 0 .. MaxChanges

\* How long ago the sound was sent that the program's output plays: the delay of
\* the ring or of TEMP, moved by the input itself in a program that adds ADRS.
Delay ==
    (program.delay + (IF program.moved /\ heard # <<>> THEN heard[1] \div 2^12 ELSE 0))
        % RingLength(rbl)

\* Every program of the run sends its input, unchanged, through memory and plays
\* it: the output is the input of exactly Delay samples ago, however the counter
\* wraps, at every length and place of the ring and soon after any change of them,
\* and whether a write is done in its own sample or left for the next one.
EchoIsDelayed ==
    Len(heard) > Delay + program.late => dsp.efreg = heard[1 + Delay] \div 2^4

\* Sound RAM outside the ring, where the 68000 keeps its own, is not written,
\* except for the one write that was pending when the ring moved.
WritesStayInTheRing ==
    \A a \in 0 .. RamSize - 1 :
        ram'[a] # ram[a] =>
            \/ (a - RingStart(rbp) + RamSize) % RamSize < RingLength(rbl)
            \/ heard = <<>> /\ dsp.writePending /\ a = dsp.ioAddr

=============================================================================
