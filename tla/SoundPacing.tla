---------------------------- MODULE SoundPacing -----------------------------
(***************************************************************************)
(* How many cycles the sound 68000 and the SCSP get: every step of the     *)
(* machine hands the cycles of the SH-2's block to SoundCpu::advance,      *)
(* which turns them into 68000 cycles, saves them up to a batch, runs the  *)
(* core for an instruction budget, and hands what the core spent to        *)
(* Scsp::generate, which turns it into samples. The 68000 reads memory     *)
(* that the SH-2 writes, so it must never be ahead of the SH-2.            *)
(***************************************************************************)
EXTENDS Integers

CONSTANTS
    Num, Den,          \* 68000 cycles per SH-2 cycle, as a fraction
    MinBatch,          \* MIN_BATCH
    AvgNum, AvgDen,    \* AVG_CYCLES_PER_INSTR, as a fraction
    LongestInsn,       \* cycles of the longest 68000 instruction
    CyclesPerSample,   \* M68K_CYCLES_PER_SAMPLE
    Profiling,         \* --sound-profile: the interpreter instead of the JIT
    MayStop,           \* the driver may execute STOP
    BlockCycles,       \* cycles a step of the machine may take
    MaxClock           \* bound on the cycles of a run

VARIABLES
    running,
    carry,     \* SH-2 cycles times Num, not yet converted
    budget,    \* 68000 cycles earned and not yet spent; negative is debt
    cycleCarry,\* cycle_carry of the SCSP
    samples,   \* samples_out
    ran,       \* history: SH-2 cycles of the steps in which the core was on
    spent,     \* history: 68000 cycles spent; the field cycles of the code
    clock      \* history: all SH-2 cycles

ASSUME RatioAssumption ==
    /\ Num \in Nat \ {0} /\ Den \in Nat \ {0}
    /\ MinBatch \in Nat \ {0}
    /\ AvgNum \in Nat \ {0} /\ AvgDen \in Nat \ {0}
    \* A batch is worth an instruction; an instruction takes two cycles at least.
    /\ AvgNum <= MinBatch * AvgDen /\ 2 * AvgDen <= AvgNum
    /\ LongestInsn \in Nat \ {0}
    /\ CyclesPerSample \in Nat \ {0}
    /\ Profiling \in BOOLEAN /\ MayStop \in BOOLEAN
    /\ BlockCycles \subseteq Nat
    /\ MaxClock \in Nat

vars == <<running, carry, budget, cycleCarry, samples, ran, spent, clock>>

Init ==
    /\ running = FALSE
    /\ carry = 0 /\ budget = 0
    /\ cycleCarry = 0 /\ samples = 0
    /\ ran = 0 /\ spent = 0 /\ clock = 0

-----------------------------------------------------------------------------
\* Mutant: one instruction too many.
InstructionsRoundedUp(b) == (b * AvgDen) \div AvgNum + 1

\* The instruction budget of a batch, and the cycles that so many instructions
\* count as, rounded to the nearest.
Instructions(b) == (b * AvgDen) \div AvgNum

CyclesOf(n) == (2 * n * AvgNum + AvgDen) \div (2 * AvgDen)

\* The core is the m68k crate.  The JIT runs the instructions it is given; the
\* interpreter ends with the instruction that exhausts the cycles.  Both return
\* early from a STOP.
JitSpends(b) ==
    LET n == IF Instructions(b) < 1 THEN 1 ELSE Instructions(b)
    IN  {CyclesOf(k) : k \in IF MayStop THEN 0 .. n ELSE {n}}

InterpreterSpends(b) ==
    (IF MayStop THEN 0 ELSE b) .. (b + LongestInsn - 1)

Spends(b) == IF Profiling THEN InterpreterSpends(b) ELSE JitSpends(b)

\* Mutant: every block is converted for itself.
EarnedAfresh(c) == (c * Num) \div Den

Earned(c) == (carry + c * Num) \div Den

\* generate: what is less than a sample is kept.
Generate(cycles) ==
    /\ samples' = samples + (cycleCarry + cycles) \div CyclesPerSample
    /\ cycleCarry' = (cycleCarry + cycles) % CyclesPerSample

\* advance, when the core is on.
Save(c) ==
    /\ budget + Earned(c) < MinBatch
    /\ budget' = budget + Earned(c)
    /\ Generate(0)
    /\ UNCHANGED spent

Run(c) ==
    /\ budget + Earned(c) >= MinBatch
    /\ \E s \in Spends(budget + Earned(c)) :
        /\ budget' = budget + Earned(c) - s
        /\ spent' = spent + s
        /\ Generate(s)

\* sound_step does nothing while the core is off: carry and budget stay.
SoundStep(c, on) ==
    IF on
    THEN /\ carry' = (carry + c * Num) % Den
         /\ ran' = ran + c
         /\ Save(c) \/ Run(c)
    ELSE UNCHANGED <<carry, budget, cycleCarry, samples, ran, spent>>

\* One step of the machine: the power request of the SMPC, if there is one, is
\* taken before the sound step of the same block.
Step ==
    \E c \in BlockCycles, on \in BOOLEAN :
        /\ clock + c <= MaxClock
        /\ clock' = clock + c
        /\ running' = on
        /\ SoundStep(c, on)

Next == Step

Spec == Init /\ [][Next]_vars

-----------------------------------------------------------------------------
TypeOK ==
    /\ running \in BOOLEAN
    /\ carry \in 0 .. Den - 1
    /\ budget \in Int
    /\ cycleCarry \in 0 .. CyclesPerSample - 1
    /\ samples \in Nat
    /\ ran \in Nat /\ clock \in Nat
    /\ spent \in Nat

\* No cycle is lost or counted twice, however the blocks cut the time and however
\* often the sound CPU is turned off and on.
CyclesAreConserved == Num * ran = Den * (spent + budget) + carry

\* The sound CPU never runs ahead of the SH-2 (sound_cpu.rs:5), even in the
\* account of the time it was on; the interpreter by less than an instruction.
NeverAhead ==
    Den * spent <= Num * ran + (IF Profiling THEN Den * (LongestInsn - 1) ELSE 0)

\* The output follows the 68000: what was spent is samples and a rest.
SamplesFollowTheCore == spent = samples * CyclesPerSample + cycleCarry

\* A driver that does not stop lags the SH-2 by less than a batch, so what is left
\* from before SNDOFF and spent after SNDON is less than a batch too.
LagIsBelowABatch == ~MayStop => budget < MinBatch

=============================================================================
