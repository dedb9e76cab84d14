------------------------------ MODULE OnChip --------------------------------
(***************************************************************************)
(* Two of the SH-2's on-chip peripherals. FRC, the free-running counter:   *)
(* the hardware counts, the code keeps the value last written and when,    *)
(* and computes the count when it is read, from the cycle at which the     *)
(* block began; a counter that ticks is carried along as the reference.    *)
(* And the division unit: a store to DVDNT or DVDNTL starts a signed       *)
(* division that is over at once.                                          *)
(***************************************************************************)
EXTENDS Integers

CONSTANTS
    ByteSize,     \* values of a byte
    DividerOf,    \* divider by the clock select bits of TCR
    BlockCycles,  \* cycles that a block may take
    MaxClock,     \* bound on the cycles of a run
    Width,
    Mirrors   \* the program uses the mirrors of DVDNTH and DVDNTL as well

VARIABLES
    now,               \* cycles of the CPU when the block began
    base, time,        \* frc_base and frc_time
    select,            \* clock select bits of TCR
    ticking, phase,    \* history: the counter that ticks, and cycles since a tick
    rescaled,          \* history: the divider was changed while counting
    dvsr, dvdnt, ovf, dvdnth, dvdntl,
    mirrorh, mirrorl,   \* 0x118 and 0x11C
    division            \* history: dividend and divisor, while the registers hold the
                        \* result

-----------------------------------------------------------------------------
(***************************************************************************)
(* The free-running counter.                                               *)
(***************************************************************************)

Selects == DOMAIN DividerOf

TimerAssumption ==
    /\ ByteSize \in Nat \ {0}
    /\ 0 \in Selects
    /\ \A s \in Selects : DividerOf[s] \in Nat \ {0}
    /\ BlockCycles \subseteq Nat /\ MaxClock \in Nat

Counts == ByteSize * ByteSize

TimerInit ==
    /\ now = 0 /\ base = 0 /\ time = 0 /\ select = 0
    /\ ticking = 0 /\ phase = 0 /\ rescaled = FALSE

Divider == DividerOf[select]

Frc == (base + (now - time) \div Divider) % Counts

-----------------------------------------------------------------------------
\* A block has run: the ticking counter has seen its cycles one by one.
Block(c) ==
    /\ now + c <= MaxClock
    /\ now' = now + c
    /\ ticking' = (ticking + (phase + c) \div Divider) % Counts
    /\ phase' = (phase + c) % Divider
    /\ UNCHANGED <<base, time, select, rescaled>>

\* A store to FRC starts counting anew; a byte store keeps the other byte as it
\* counts at that moment.
SetFrc(v) ==
    /\ base' = v /\ time' = now
    /\ ticking' = v /\ phase' = 0
    /\ rescaled' = FALSE
    /\ UNCHANGED <<now, select>>

WriteFrc(v) == SetFrc(v)

WriteFrcHigh(b) == SetFrc(b * ByteSize + (Frc % ByteSize))

WriteFrcLow(b) == SetFrc((Frc \div ByteSize) * ByteSize + b)

\* TCR changes the divider and nothing else; the reference keeps its count.
WriteTcr(s) ==
    /\ select' = s
    /\ phase' = phase % DividerOf[s]
    /\ rescaled' = (rescaled \/ (s # select /\ now # time))
    /\ UNCHANGED <<now, base, time, ticking>>

TimerNext ==
    \/ \E c \in BlockCycles : Block(c)
    \/ \E v \in 0 .. Counts - 1 : WriteFrc(v)
    \/ \E b \in 0 .. ByteSize - 1 : WriteFrcHigh(b) \/ WriteFrcLow(b)
    \/ \E s \in Selects : WriteTcr(s)

-----------------------------------------------------------------------------
\* The count that is computed is the one of a counter that ticks, through any
\* stores to either byte and over the wrap, as long as the divider stays as it was
\* when FRC was last written.
CountsLikeACounter == ~rescaled => Frc = ticking

-----------------------------------------------------------------------------
(***************************************************************************)
(* The division unit. A register holds Width bits; the dividend of DVDNTH  *)
(* and DVDNTL twice as many.                                               *)
(***************************************************************************)

DivuAssumption == Width \in Nat \ {0} /\ Mirrors \in BOOLEAN

Size == 2 ^ Width

Word == 0 .. Size - 1

-----------------------------------------------------------------------------
Signed(v) == IF v >= Size \div 2 THEN v - Size ELSE v

SignedPair(h, l) == Signed(h) * Size + l

Least == -(Size \div 2)

Greatest == Size \div 2 - 1

Abs(n) == IF n < 0 THEN -n ELSE n

Sign(n) == IF n < 0 THEN -1 ELSE 1

\* Division that truncates, in twice the width: the least dividend by -1 wraps.
Quotient(n, d) ==
    IF n = Least * Size /\ d = -1 THEN n ELSE Sign(n) * Sign(d) * (Abs(n) \div Abs(d))

\* Mutant: the remainder has the divisor's sign.
RemainderOfDivisor(n, d) == Sign(d) * (Abs(n) % Abs(d))

Remainder(n, d) == Sign(n) * (Abs(n) % Abs(d))

Overflows(n, d) == d = 0 \/ Quotient(n, d) > Greatest \/ Quotient(n, d) < Least

\* The quotient that is stored.
Saturated(n, d) ==
    IF ~Overflows(n, d) THEN Quotient(n, d)
    ELSE IF d = 0 THEN (IF n < 0 THEN Least ELSE Greatest)
    ELSE IF Quotient(n, d) < 0 THEN Least ELSE Greatest

\* finish_division: the quotient goes to every low register, the remainder to
\* the high ones; the overflow flag stays until the program clears it.
Finish(n) ==
    LET d == Signed(dvsr)
        q == Saturated(n, d) % Size
        r == IF d = 0 THEN n % Size ELSE Remainder(n, d) % Size
    IN  /\ dvdnt' = q /\ dvdntl' = q /\ mirrorl' = q
        /\ dvdnth' = r /\ mirrorh' = r
        /\ ovf' = (ovf \/ Overflows(n, d))
        /\ division' = [n |-> n, d |-> d]
        /\ UNCHANGED dvsr

None == [n |-> 0, d |-> 1]

DivuInit ==
    /\ dvsr = 0 /\ dvdnt = 0 /\ ovf = FALSE
    /\ dvdnth = 0 /\ dvdntl = 0 /\ mirrorh = 0 /\ mirrorl = 0
    /\ division = None

-----------------------------------------------------------------------------
WriteDvsr(v) ==
    /\ dvsr' = v
    /\ division' = None
    /\ UNCHANGED <<dvdnt, ovf, dvdnth, dvdntl, mirrorh, mirrorl>>

ClearOverflow ==
    /\ ovf' = FALSE
    /\ division' = None
    /\ UNCHANGED <<dvsr, dvdnt, dvdnth, dvdntl, mirrorh, mirrorl>>

WriteDvdnt(v) == Finish(Signed(v))

WriteDvdnth(v) ==
    /\ dvdnth' = v
    /\ division' = None
    /\ UNCHANGED <<dvsr, dvdnt, ovf, dvdntl, mirrorh, mirrorl>>

WriteDvdntl(v) == Finish(SignedPair(dvdnth, v))

\* A store to a mirror is copied to the register after the fact: for DVDNTL the
\* division has run on the register's old value by then, and the copy is of the
\* quotient.
WriteMirrorh(v) ==
    /\ mirrorh' = v /\ dvdnth' = v
    /\ division' = None
    /\ UNCHANGED <<dvsr, dvdnt, ovf, dvdntl, mirrorl>>

WriteMirrorl(v) == Finish(SignedPair(dvdnth, dvdntl))

DivuNext ==
    \E v \in Word :
        \/ WriteDvsr(v) \/ WriteDvdnt(v) \/ WriteDvdnth(v) \/ WriteDvdntl(v)
        \/ Mirrors /\ (WriteMirrorh(v) \/ WriteMirrorl(v))
        \/ ClearOverflow

-----------------------------------------------------------------------------
Holds == division # None

\* A quotient that fits is exact: the dividend is quotient times divisor plus a
\* remainder that is less than the divisor and has the dividend's sign.
DivisionIsExact ==
    Holds /\ ~Overflows(division.n, division.d) =>
        LET q == Signed(dvdntl)
            r == Signed(dvdnth)
        IN  /\ division.n = q * division.d + r
            /\ Abs(r) < Abs(division.d)
            /\ r = 0 \/ Sign(r) = Sign(division.n)

\* What does not fit sets OVF and saturates towards the sign of the true quotient;
\* the one exception is the least dividend by -1, which wraps before it is looked
\* at and saturates the wrong way.
OverflowSaturates ==
    Holds /\ Overflows(division.n, division.d) =>
        /\ ovf
        /\ division # [division EXCEPT !.n = Least * Size, !.d = -1] =>
               dvdntl = (IF Sign(division.n) = Sign(division.d) THEN Greatest ELSE Least) % Size

=============================================================================
